---- MODULE Spec2Model ----
(***************************************************************************)
(* State-machine model of the AI service core:                             *)
(*   - SkillRegistry (models/skills.py): register_skill, bulk_register     *)
(*     run by threads that contend for the registry lock;                  *)
(*   - Agent (core/agent.py): process_request pipeline, execute_skill,     *)
(*     update_state, the background history-trim task;                     *)
(*   - EmbeddingService (core/embeddings.py) over PineconeService          *)
(*     (services/pinecone.py): generate, store in batches, search;         *)
(*   - LanguageModel (core/llm.py): generate_text and get_embedding of     *)
(*     concurrent callers at the rate limiter.                             *)
(* Agent coroutines are interleaved at their suspension points only        *)
(* (asyncio); registry calls are interleaved at every step (threading.Lock *)
(* is what serialises them).                                               *)
(***************************************************************************)
EXTENDS Integers, Sequences, FiniteSets, TLC

\* ------------------------------------------------------------------ bounds
MaxRegCalls == 3        \* registry calls (register_skill / bulk_register) started in a run
MaxBulkLen == 2         \* longest list handed to bulk_register

Threads == {"t1", "t2"}

None == "None"

\* ------------------------------------------------------------ skill values
\* SkillCategory.__members__
SkillCategory == {"TEXT_PROCESSING", "DECISION_MAKING", "DATA_ANALYSIS", "KNOWLEDGE_BASE"}

RequiredFields == {"name", "description", "category", "prompt_template"}

\* The skill objects callers hand to the registry, as skill.dict() shows them.
\* "fields" are the keys of the dict. prompt_template and the schemas carry their
\* Python type; a prompt_template dict carries its keys, an input_schema dict the
\* (key, type) pairs it declares.
Dict(keys) == [type |-> "dict", keys |-> keys]
Other(t) == [type |-> t, keys |-> {}]

MkSkill(n, d, c, f, pt, is, os) ==
    [name |-> n, description |-> d, category |-> c, fields |-> f,
     prompt_template |-> pt, input_schema |-> is, output_schema |-> os]

SkillDef ==
    <<MkSkill("a", "first",  "TEXT_PROCESSING", RequiredFields,
              Dict({"base"}), Dict({<<"request", "str">>}), Dict({})),
      MkSkill("a", "second", "DATA_ANALYSIS",   RequiredFields,
              Dict({"base"}), Dict({}), Dict({})),
      MkSkill("b", "first",  "KNOWLEDGE_BASE",  RequiredFields,
              Dict({"base"}), Dict({<<"topic", "str">>}), Dict({})),
      MkSkill("a", "third",  "CHITCHAT",        RequiredFields,
              Dict({"base"}), Dict({}), Dict({})),
      MkSkill("b", "second", "DECISION_MAKING", RequiredFields,
              Other("str"), Dict({}), Dict({})),
      MkSkill("c", "first",  "TEXT_PROCESSING", RequiredFields \ {"description"},
              Dict({"base"}), Dict({}), Dict({})),
      MkSkill("c", "second", "TEXT_PROCESSING", RequiredFields,
              Dict({"base"}), Other("list"), Dict({})),
      MkSkill("c", "third",  "TEXT_PROCESSING", RequiredFields,
              Dict({"base"}), Dict({}), Other("str")),
      MkSkill("c", "fourth", "DECISION_MAKING", RequiredFields,
              Dict({"summary"}), Dict({<<"context", "list">>}), Dict({})),
      MkSkill("d", "first",  "DATA_ANALYSIS",   RequiredFields,
              Dict({"base"}), Dict({<<"request", "int">>}), Dict({}))>>

SkillIds == 1..Len(SkillDef)

\* validate_skill_config(skill_config) -> (is_valid, error message)
validate_skill_config(cfg) ==
    IF ~(RequiredFields \subseteq cfg.fields) THEN <<FALSE, "Missing required field">>
    ELSE IF cfg.category \notin SkillCategory THEN <<FALSE, "Invalid category">>
    ELSE IF cfg.prompt_template.type # "dict" THEN <<FALSE, "Prompt template must be a dictionary">>
    ELSE IF cfg.input_schema.type # "dict" THEN <<FALSE, "Input schema must be a dictionary">>
    ELSE IF cfg.output_schema.type # "dict" THEN <<FALSE, "Output schema must be a dictionary">>
    ELSE <<TRUE, None>>

ValidIds == {s \in SkillIds : validate_skill_config(SkillDef[s])[1]}

\* ----------------------------------------------------------------- state
VARIABLES
    skills,         \* SkillRegistry._skills: insertion-ordered dict, a sequence of [name, skill]
    metrics,        \* SkillRegistry._metrics: name -> metrics entry
    registry_lock,  \* SkillRegistry._registry_lock: "free" or the thread holding it
    clock,          \* datetime.now(), as a logical clock
    rpc,            \* thread -> position in register_skill / bulk_register
    rcall,          \* thread -> the call's arguments, locals and return value
    before,         \* thread -> the registry as it was when the thread took the lock
    reg_log,        \* completed register_skill calls, in order of return
    reg_calls,      \* number of registry calls started
    conversation_history,  \* Agent._conversation_history
    prefilled,      \* number of turns appended before the modelled requests
    append_log,     \* the turns the modelled requests appended, oldest first
    agent_state,    \* Agent._state
    circuit_breaker,       \* Agent._circuit_breaker
    fail_streak,    \* execute_skill calls that failed in a row, up to failure_threshold
    error_counts,   \* Skill.error_counts["execution_errors"] of each registered skill
    apc,            \* caller -> position in process_request
    acall,          \* caller -> the call's arguments and locals
    calls,          \* number of process_request calls started
    epc,            \* position of the caller of EmbeddingService
    ecall,          \* the EmbeddingService call's arguments and locals
    upsert_log,     \* the vector_data of each upsert_vectors call of the current call, in call order
    query_log,      \* the query_vector of each query call of the current call
    emb_calls,      \* number of EmbeddingService calls started
    permits,        \* LanguageModel._rate_limiter: the permits available
    lm,             \* position in generate_text / get_embedding -> number of callers there
    lm_outcome,     \* how the LanguageModel call that ended last ended
    task,           \* background task of the Agent -> its position and the pending cancellation
    oa              \* the caller of OpenAIService: its position, its arguments, the request sent

regVars == <<skills, metrics, registry_lock, rpc, rcall, before, reg_log, reg_calls>>
agentVars == <<conversation_history, prefilled, append_log, agent_state, circuit_breaker, fail_streak,
               error_counts, apc, acall, calls, task>>
embVars == <<epc, ecall, upsert_log, query_log, emb_calls>>
llmVars == <<permits, lm, lm_outcome>>
vars == <<regVars, clock, agentVars, embVars, llmVars, oa>>

\* ------------------------------------------------------ dict helpers
Names(d) == {d[i].name : i \in 1..Len(d)}
Lookup(d, n) == (CHOOSE i \in 1..Len(d) : d[i].name = n)
\* d[n] = v on an insertion-ordered dict: a new key goes last, an old key keeps its place
DictSet(d, n, v) ==
    IF n \in Names(d)
    THEN [d EXCEPT ![Lookup(d, n)] = [name |-> n, skill |-> v]]
    ELSE Append(d, [name |-> n, skill |-> v])
DictGet(d, n) == d[Lookup(d, n)].skill

\* seen: how many register_skill calls had returned when this call was made
NoCall == [op |-> "none", skill |-> 0, list |-> <<>>, i |-> 0, nested |-> FALSE,
           ret |-> <<FALSE, None>>, results |-> <<>>, seen |-> 0]

NoSnapshot == <<<<>>, <<>>>>

\* The lists handed to bulk_register: over two valid skills of different names and
\* an invalid one
\* The skills handed to register_skill: two valid skills of one name, a valid one
\* of another, and skills that fail the first, the second and the last check of
\* validate_skill_config
RegisterIds == {1, 2, 3, 4, 6, 8}

BulkIds == {1, 3, 4}
BulkLists == UNION {[1..k -> BulkIds] : k \in 0..MaxBulkLen}

\* results[name] = v on the results dict of bulk_register (a function name -> tuple)
ResultSet(r, n, v) == (n :> v) @@ r

SkillName(s) == SkillDef[s].name
AllNames == {SkillName(s) : s \in SkillIds}
DuplicateError == <<FALSE, "Skill already exists">>

\* ------------------------------------------------------ SkillRegistry
\* SkillRegistry.__init__
RegistryInit ==
    /\ skills = <<>>
    /\ metrics = <<>>
    /\ registry_lock = "free"
    /\ clock = 0
    /\ rpc = [t \in Threads |-> "idle"]
    /\ rcall = [t \in Threads |-> NoCall]
    /\ before = [t \in Threads |-> NoSnapshot]
    /\ reg_log = <<>>
    /\ reg_calls = 0

\* A caller invokes register_skill(skill).
CallRegister(t) ==
    /\ rpc[t] = "idle"
    /\ reg_calls < MaxRegCalls
    /\ \E s \in RegisterIds :
         rcall' = [rcall EXCEPT ![t] = [NoCall EXCEPT !.op = "register", !.skill = s,
                                                          !.seen = Len(reg_log)]]
    /\ rpc' = [rpc EXCEPT ![t] = "reg_acquire"]
    /\ reg_calls' = reg_calls + 1
    /\ UNCHANGED <<skills, metrics, registry_lock, clock, before, reg_log, agentVars, embVars, llmVars, oa>>

\* A caller invokes bulk_register(skills).
CallBulk(t) ==
    /\ rpc[t] = "idle"
    /\ reg_calls < MaxRegCalls
    /\ \E l \in BulkLists :
         rcall' = [rcall EXCEPT ![t] = [NoCall EXCEPT !.op = "bulk", !.list = l, !.i = 1]]
    /\ rpc' = [rpc EXCEPT ![t] = "bulk_acquire"]
    /\ reg_calls' = reg_calls + 1
    /\ UNCHANGED <<skills, metrics, registry_lock, clock, before, reg_log, agentVars, embVars, llmVars, oa>>

\* (mutant) a lock that excludes nobody
LockFree_NoExclusion(t) == TRUE

\* threading.Lock.acquire: not reentrant, it waits until the lock is free
LockFree(t) == registry_lock = "free"

\* register_skill: with self._registry_lock
RegAcquire(t) ==
    /\ rpc[t] = "reg_acquire"
    /\ LockFree(t)
    /\ registry_lock' = t
    /\ before' = [before EXCEPT ![t] = <<skills, metrics>>]
    /\ rpc' = [rpc EXCEPT ![t] = "reg_validate"]
    /\ UNCHANGED <<skills, metrics, clock, rcall, reg_log, reg_calls, agentVars, embVars, llmVars, oa>>

\* register_skill: validate_skill_config(skill.dict()); return False, error_msg
RegValidate(t) ==
    /\ rpc[t] = "reg_validate"
    /\ LET v == validate_skill_config(SkillDef[rcall[t].skill]) IN
         IF v[1]
         THEN /\ rpc' = [rpc EXCEPT ![t] = "reg_check"]
              /\ UNCHANGED rcall
         ELSE /\ rpc' = [rpc EXCEPT ![t] = "reg_release"]
              /\ rcall' = [rcall EXCEPT ![t].ret = v]
    /\ UNCHANGED <<skills, metrics, registry_lock, clock, before, reg_log, reg_calls, agentVars, embVars, llmVars, oa>>

\* (mutant) register_skill without the check for an existing name
RegCheck_NoDuplicateCheck(t) ==
    /\ rpc[t] = "reg_check"
    /\ rpc' = [rpc EXCEPT ![t] = "reg_insert_skill"]
    /\ UNCHANGED <<skills, metrics, registry_lock, clock, rcall, before, reg_log, reg_calls, agentVars, embVars, llmVars, oa>>

\* register_skill: if skill.name in self._skills: return False, "Skill already exists"
RegCheck(t) ==
    /\ rpc[t] = "reg_check"
    /\ IF SkillDef[rcall[t].skill].name \in Names(skills)
       THEN /\ rpc' = [rpc EXCEPT ![t] = "reg_release"]
            /\ rcall' = [rcall EXCEPT ![t].ret = <<FALSE, "Skill already exists">>]
       ELSE /\ rpc' = [rpc EXCEPT ![t] = "reg_insert_skill"]
            /\ UNCHANGED rcall
    /\ UNCHANGED <<skills, metrics, registry_lock, clock, before, reg_log, reg_calls, agentVars, embVars, llmVars, oa>>

\* (mutant) the registry is replaced by one that holds the new skill only
RegInsertSkill_Replaces(t) ==
    /\ rpc[t] = "reg_insert_skill"
    /\ skills' = <<[name |-> SkillDef[rcall[t].skill].name, skill |-> rcall[t].skill]>>
    /\ rpc' = [rpc EXCEPT ![t] = "reg_insert_metrics"]
    /\ UNCHANGED <<metrics, registry_lock, clock, rcall, before, reg_log, reg_calls, agentVars, embVars, llmVars, oa>>

\* register_skill: self._skills[skill.name] = skill
RegInsertSkill(t) ==
    /\ rpc[t] = "reg_insert_skill"
    /\ skills' = DictSet(skills, SkillDef[rcall[t].skill].name, rcall[t].skill)
    /\ rpc' = [rpc EXCEPT ![t] = "reg_insert_metrics"]
    /\ UNCHANGED <<metrics, registry_lock, clock, rcall, before, reg_log, reg_calls, agentVars, embVars, llmVars, oa>>

\* register_skill: self._metrics[skill.name] = {...}; return True, None
RegInsertMetrics(t) ==
    /\ rpc[t] = "reg_insert_metrics"
    /\ clock' = clock + 1
    /\ metrics' = ResultSet(metrics, SkillDef[rcall[t].skill].name,
                            [registered_at |-> clock', execution_count |-> 0, error_rate |-> 0])
    /\ rcall' = [rcall EXCEPT ![t].ret = <<TRUE, None>>]
    /\ rpc' = [rpc EXCEPT ![t] = "reg_release"]
    /\ UNCHANGED <<skills, registry_lock, before, reg_log, reg_calls, agentVars, embVars, llmVars, oa>>

\* register_skill: leaving the with block releases the lock; the call returns,
\* to bulk_register's loop when bulk_register made it
RegRelease(t) ==
    /\ rpc[t] = "reg_release"
    /\ registry_lock' = IF registry_lock = t THEN "free" ELSE registry_lock
    /\ reg_log' = Append(reg_log, [skill |-> rcall[t].skill,
                                   ok |-> rcall[t].ret[1], err |-> rcall[t].ret[2]])
    /\ IF rcall[t].nested
       THEN /\ rcall' = [rcall EXCEPT
                  ![t].results = ResultSet(@, SkillDef[rcall[t].skill].name, rcall[t].ret),
                  ![t].i = @ + 1]
            /\ rpc' = [rpc EXCEPT ![t] = "bulk_register"]
       ELSE /\ rcall' = [rcall EXCEPT ![t] = NoCall]
            /\ rpc' = [rpc EXCEPT ![t] = "idle"]
    /\ before' = [before EXCEPT ![t] = NoSnapshot]
    /\ UNCHANGED <<skills, metrics, clock, reg_calls, agentVars, embVars, llmVars, oa>>

\* bulk_register: with self._registry_lock
BulkAcquire(t) ==
    /\ rpc[t] = "bulk_acquire"
    /\ LockFree(t)
    /\ registry_lock' = t
    /\ before' = [before EXCEPT ![t] = <<skills, metrics>>]
    /\ rpc' = [rpc EXCEPT ![t] = "bulk_validate"]
    /\ UNCHANGED <<skills, metrics, clock, rcall, reg_log, reg_calls, agentVars, embVars, llmVars, oa>>

\* (mutant) bulk_register that registers each skill as soon as it has validated it
BulkValidate_RegistersAsItGoes(t) ==
    /\ rpc[t] = "bulk_validate"
    /\ LET c == rcall[t] IN
         IF c.i > Len(c.list)
         THEN /\ rpc' = [rpc EXCEPT ![t] = "bulk_release"]
              /\ UNCHANGED <<rcall, skills, agentVars, embVars, llmVars, oa>>
         ELSE LET v == validate_skill_config(SkillDef[c.list[c.i]])
                  n == SkillDef[c.list[c.i]].name IN
              IF v[1]
              THEN /\ rcall' = [rcall EXCEPT ![t].i = @ + 1]
                   /\ skills' = IF n \in Names(skills) THEN skills
                                 ELSE DictSet(skills, n, c.list[c.i])
                   /\ UNCHANGED rpc
              ELSE /\ rcall' = [rcall EXCEPT ![t].results = ResultSet(@, n, v)]
                   /\ rpc' = [rpc EXCEPT ![t] = "bulk_release"]
                   /\ UNCHANGED skills
    /\ UNCHANGED <<metrics, registry_lock, clock, before, reg_log, reg_calls, agentVars, embVars, llmVars, oa>>

\* bulk_register: for skill in skills: validate_skill_config(skill.dict());
\* the first invalid skill ends the call with that skill's error alone
BulkValidate(t) ==
    /\ rpc[t] = "bulk_validate"
    /\ LET c == rcall[t] IN
         IF c.i > Len(c.list)
         THEN /\ rcall' = [rcall EXCEPT ![t].i = 1]
              /\ rpc' = [rpc EXCEPT ![t] = "bulk_register"]
         ELSE LET v == validate_skill_config(SkillDef[c.list[c.i]]) IN
              IF v[1]
              THEN /\ rcall' = [rcall EXCEPT ![t].i = @ + 1]
                   /\ UNCHANGED rpc
              ELSE /\ rcall' = [rcall EXCEPT
                         ![t].results = ResultSet(@, SkillDef[c.list[c.i]].name, v)]
                   /\ rpc' = [rpc EXCEPT ![t] = "bulk_release"]
    /\ UNCHANGED <<skills, metrics, registry_lock, clock, before, reg_log, reg_calls, agentVars, embVars, llmVars, oa>>

\* bulk_register: for skill in skills: await self.register_skill(skill), with the
\* lock still held; after the last skill the results are returned
BulkRegister(t) ==
    /\ rpc[t] = "bulk_register"
    /\ LET c == rcall[t] IN
         IF c.i > Len(c.list)
         THEN /\ rpc' = [rpc EXCEPT ![t] = "bulk_release"]
              /\ UNCHANGED rcall
         ELSE /\ rcall' = [rcall EXCEPT ![t].skill = c.list[c.i], ![t].nested = TRUE]
              /\ rpc' = [rpc EXCEPT ![t] = "reg_acquire"]
    /\ UNCHANGED <<skills, metrics, registry_lock, clock, before, reg_log, reg_calls, agentVars, embVars, llmVars, oa>>

\* bulk_register: return results, leaving the with block
BulkRelease(t) ==
    /\ rpc[t] = "bulk_release"
    /\ registry_lock' = IF registry_lock = t THEN "free" ELSE registry_lock
    /\ rcall' = [rcall EXCEPT ![t] = NoCall]
    /\ rpc' = [rpc EXCEPT ![t] = "idle"]
    /\ before' = [before EXCEPT ![t] = NoSnapshot]
    /\ UNCHANGED <<skills, metrics, clock, reg_log, reg_calls, agentVars, embVars, llmVars, oa>>

ThreadStep(t) ==
    \/ CallRegister(t)
    \/ CallBulk(t)
    \/ RegAcquire(t)
    \/ RegValidate(t)
    \/ RegCheck(t)
    \/ RegInsertSkill(t)
    \/ RegInsertMetrics(t)
    \/ RegRelease(t)
    \/ BulkAcquire(t)
    \/ BulkValidate(t)
    \/ BulkRegister(t)
    \/ BulkRelease(t)

\* ------------------------------------------------------------------ Agent
CONVERSATION_HISTORY_LIMIT == 100
MAX_CONTEXT_LENGTH == 4096
\* process_request: stop_after_attempt(3)
MaxAttempts == 3
\* circuit(failure_threshold=3, recovery_timeout=60)
failure_threshold == 3
recovery_timeout == 60
\* _validate_security_context: 5 minute expiry
SecurityExpiry == 300
\* Skill.security_config["max_input_size"]
max_input_size == 10000
\* _select_skills: all_skills[:3]
SelectCount == 3
\* LanguageModel.generate_text: stop_after_attempt(3)
LlmMaxAttempts == 3

\* process_request calls started in a run
MaxCalls == 2

Callers == {"c1", "c2"}

Min(a, b) == IF a < b THEN a ELSE b

\* request values: a str of some length, or None
Str(n) == [type |-> "str", len |-> n]
NoneValue == [type |-> "NoneType", len |-> 0]

\* security_context values: None, or a dict with some fields whose timestamp
\* parses or not and is age seconds old. Ages stand for classes: 0 for a fresh
\* timestamp, 300 for one at the limit, 301 for one past it.
SecurityFields == {"user_id", "access_level", "timestamp"}
SecNone == [type |-> "NoneType", fields |-> {}, parses |-> TRUE, age |-> 0]
SecDict(f, p, a) == [type |-> "dict", fields |-> f, parses |-> p, age |-> a]

\* The calls made: (request, context, security_context). Caller c1 makes every
\* kind of call, caller c2 plain ones that run beside them.
PlainInputs == {<<Str(5), None, SecNone>>, <<Str(0), None, SecNone>>}
\* The length of the oversized request of test_error_recovery
OversizedLength == 1000000
\* settings.DEFAULT_TEMPERATURE, 0.7, in tenths
DEFAULT_TEMPERATURE == 7
DEFAULT_MAX_TOKENS == 1000

AllInputs ==
    {<<NoneValue, None, SecNone>>,
     <<Str(0), "ctx", SecNone>>,
     <<Str(0), None, SecDict(SecurityFields, TRUE, 0)>>,
     <<Str(5), None, SecNone>>,
     <<Str(5), "ctx", SecDict(SecurityFields, TRUE, 0)>>,
     <<Str(5), "ctx", SecDict({}, TRUE, 0)>>,
     <<Str(5), None, SecDict(SecurityFields, TRUE, 300)>>,
     <<Str(5), None, SecDict({"user_id", "access_level"}, TRUE, 0)>>,
     <<Str(5), None, SecDict(SecurityFields, FALSE, 0)>>,
     <<Str(5), None, SecDict(SecurityFields, TRUE, 301)>>,
     <<Str(5000), None, SecNone>>,
     <<Str(OversizedLength), None, SecNone>>}
CallInputs(c) == IF c = "c1" THEN AllInputs ELSE PlainInputs

\* if not request or not isinstance(request, str)
InvalidRequest(request) == request.type # "str" \/ request.len = 0

\* if security_context: (None and the empty dict are falsy)
Truthy(security_context) == security_context.type = "dict" /\ security_context.fields # {}

\* _validate_security_context: None when it returns, else the ValueError raised
validate_security_context(sc) ==
    IF ~(SecurityFields \subseteq sc.fields) THEN "Missing required security field"
    ELSE IF ~sc.parses THEN "Invalid isoformat string"
    ELSE IF sc.age > SecurityExpiry THEN "Security context has expired"
    ELSE None

\* process_request, step 1: None when the attempt goes on, else the error raised
Step1Error(request, sc) ==
    IF InvalidRequest(request) THEN "Invalid request format"
    ELSE IF Truthy(sc) THEN validate_security_context(sc)
    ELSE None

\* The age of a timestamp after a retry wait (4 to 60 seconds)
AgesAfterWait(a) == IF a = 0 THEN {0, 301} ELSE {301}

\* context or {}
ContextOr(context) == IF context = None THEN "{}" ELSE context

Turn(request, context, ts) ==
    [role |-> "user", content |-> request, timestamp |-> ts, context |-> ContextOr(context)]

\* (mutant) the turn is appended and nothing is evicted
update_conversation_history_NoEviction(h, turn) == Append(h, turn)

\* (mutant) the newest turn is evicted: pop() for pop(0)
update_conversation_history_PopLast(h, turn) ==
    LET h1 == Append(h, turn) IN
    IF Len(h1) > CONVERSATION_HISTORY_LIMIT THEN SubSeq(h1, 1, Len(h1) - 1) ELSE h1

\* _update_conversation_history: append, then pop(0) when over the limit
update_conversation_history(h, turn) ==
    LET h1 == Append(h, turn) IN
    IF Len(h1) > CONVERSATION_HISTORY_LIMIT THEN Tail(h1) ELSE h1

\* _cleanup_state: self._conversation_history[-CONVERSATION_HISTORY_LIMIT:] when over the limit
cleanup_trim(h) ==
    IF Len(h) > CONVERSATION_HISTORY_LIMIT
    THEN SubSeq(h, Len(h) - CONVERSATION_HISTORY_LIMIT + 1, Len(h))
    ELSE h

\* CircuitBreaker.opened of the breaker built in Agent.__init__
opened(cb) == cb.state = "open"

\* SkillRegistry.get_skill(name): the skill registered under name, or None
get_skill(d, n) == IF n \in Names(d) THEN DictGet(d, n) ELSE 0

\* SkillRegistry.list_skills(): the registered skills in registration order
list_skills(d) == [i \in 1..Len(d) |-> d[i].name]

\* (mutant) every registered skill is selected
select_skills_All(d) == list_skills(d)

\* _select_skills: all_skills[:3]
select_skills(d) == SubSeq(list_skills(d), 1, Min(SelectCount, Len(d)))

\* The inputs process_request hands to execute_skill: {"request": str, "context": list}
InputTypes == [request |-> "str", context |-> "list"]
\* len(str(inputs))
InputSize(request, conv) == request.len + 30 + 50 * Len(conv)

\* Skill.validate_inputs: the size limit, then every declared key present in the
\* inputs with a value of the type of the schema entry
validate_inputs(skill, request, conv) ==
    /\ InputSize(request, conv) <= max_input_size
    /\ \A kt \in skill.input_schema.keys :
          kt[1] \in DOMAIN InputTypes /\ InputTypes[kt[1]] = kt[2]

\* len(str(new_state)) of the state process_request writes
StateSize(request, results) == request.len + 90 + 40 * Len(results)

NoRequest ==
    [request |-> NoneValue, context |-> None, security_context |-> SecNone,
     attempt |-> 0, stage |-> "none", conv |-> <<>>, selected |-> <<>>, k |-> 0,
     results |-> <<>>, llm_attempt |-> 0, effects |-> {}, entry_streak |-> 0,
     error |-> None, raised |-> None, ctx_failure |-> None,
     op |-> "none", new_state |-> <<>>, skill_name |-> None, ret |-> None,
     inputs |-> NoneValue, bumped |-> <<>>, appends |-> 0]

\* The background tasks Agent.__init__ creates
Tasks == {"cleanup_state", "report_metrics"}

\* asyncio.create_task(...): both tasks wait in their first asyncio.sleep
TasksStarted == [t \in Tasks |-> [pc |-> "sleep", cancel_requested |-> FALSE]]

\* The Agents the requests are made to: the skills registered and the number of
\* turns appended before the modelled requests begin
AgentSetups ==
    {<<<<>>, 0>>,
     <<<<1, 3>>, CONVERSATION_HISTORY_LIMIT - 1>>,
     <<<<1, 3, 9, 10>>, CONVERSATION_HISTORY_LIMIT>>}

\* The history after n earlier requests, none over the limit
Earlier(n) == [i \in 1..n |-> Turn(Str(5), None, i)]

Registered(ids) == [i \in 1..Len(ids) |-> [name |-> SkillName(ids[i]), skill |-> ids[i]]]

\* Agent.__init__, followed by reg registrations and n earlier requests
AgentInit ==
    \E setup \in AgentSetups :
      LET reg == setup[1]
          n == setup[2] IN
        /\ skills = Registered(reg)
        /\ metrics = [nm \in {SkillName(reg[i]) : i \in 1..Len(reg)} |->
                        [registered_at |-> 0, execution_count |-> 0, error_rate |-> 0]]
        /\ error_counts = [nm \in {SkillName(reg[i]) : i \in 1..Len(reg)} |-> 0]
        /\ conversation_history = Earlier(n)
        /\ prefilled = n
        /\ append_log = <<>>
        /\ clock = n
        /\ agent_state = <<>>
        /\ circuit_breaker = [state |-> "closed", failure_count |-> 0]
        /\ fail_streak = 0
        /\ apc = [c \in Callers |-> "idle"]
        /\ acall = [c \in Callers |-> NoRequest]
        /\ calls = 0
        /\ task = TasksStarted

\* The state of the Agent's variables when only the registry is exercised
AgentUnused ==
    /\ error_counts = <<>>
    /\ conversation_history = <<>>
    /\ prefilled = 0
    /\ append_log = <<>>
    /\ agent_state = <<>>
    /\ circuit_breaker = [state |-> "closed", failure_count |-> 0]
    /\ fail_streak = 0
    /\ apc = [c \in Callers |-> "idle"]
    /\ acall = [c \in Callers |-> NoRequest]
    /\ calls = 0
    /\ task = TasksStarted

RegistryUnused ==
    /\ registry_lock = "free"
    /\ rpc = [t \in Threads |-> "idle"]
    /\ rcall = [t \in Threads |-> NoCall]
    /\ before = [t \in Threads |-> NoSnapshot]
    /\ reg_log = <<>>
    /\ reg_calls = 0

\* PineconeService.query is synchronous and retries with time.sleep: while a
\* caller is inside it no other coroutine of the event loop runs
LoopFree(c) == \A d \in Callers \ {c} : apc[d] # "query"

\* A caller invokes process_request(request, context, security_context).
Start(c) ==
    /\ apc[c] \in {"idle", "returned", "raised"}
    /\ LoopFree(c)
    /\ calls < MaxCalls
    /\ \E in \in CallInputs(c) :
         acall' = [acall EXCEPT ![c] =
                     [NoRequest EXCEPT !.request = in[1], !.context = in[2],
                                       !.security_context = in[3], !.attempt = 1]]
    /\ apc' = [apc EXCEPT ![c] = "attempt"]
    /\ calls' = calls + 1
    /\ UNCHANGED <<conversation_history, prefilled, append_log, agent_state, circuit_breaker,
                   fail_streak, error_counts, clock, regVars, embVars, llmVars, task, oa>>

\* What tenacity does with the RuntimeError of attempt number attempt: nothing
\* reaches the caller while attempts are left, and after the last one it raises
\* RetryError (the retry decorator does not set reraise)
Surfaced(attempt) == IF attempt < MaxAttempts THEN None ELSE "RetryError"

\* (mutant) the turn is appended before the request is validated
RejectAtStep1_AfterAppend(c, err) ==
    /\ clock' = clock + 1
    /\ conversation_history' = update_conversation_history(
           conversation_history, Turn(acall[c].request, acall[c].context, clock'))
    /\ append_log' = Append(append_log, Turn(acall[c].request, acall[c].context, clock'))
    /\ acall' = [acall EXCEPT ![c].error = err, ![c].effects = @ \cup {"history"},
                              ![c].appends = @ + 1,
                              ![c].raised = Surfaced(acall[c].attempt)]
    /\ apc' = [apc EXCEPT ![c] =
                 IF acall[c].attempt < MaxAttempts THEN "backoff" ELSE "raised"]
    /\ UNCHANGED <<prefilled, agent_state, regVars, embVars, llmVars, task, oa>>

\* process_request: step 1 raises ValueError, the handler raises RuntimeError and
\* tenacity either waits for the next attempt or, after the last, raises RetryError
RejectAtStep1(c, err) ==
    /\ acall' = [acall EXCEPT ![c].error = err, ![c].raised = Surfaced(acall[c].attempt)]
    /\ apc' = [apc EXCEPT ![c] =
                 IF acall[c].attempt < MaxAttempts THEN "backoff" ELSE "raised"]
    /\ UNCHANGED <<conversation_history, prefilled, append_log, agent_state, clock, regVars, embVars, llmVars, task, oa>>

\* process_request: the turn is appended and generate_embedding(request) calls the provider
AcceptAtStep1(c) ==
    /\ clock' = clock + 1
    /\ conversation_history' = update_conversation_history(
           conversation_history, Turn(acall[c].request, acall[c].context, clock'))
    /\ append_log' = Append(append_log, Turn(acall[c].request, acall[c].context, clock'))
    /\ acall' = [acall EXCEPT ![c].stage = "request", ![c].appends = @ + 1,
                              ![c].effects = @ \cup {"history", "embedding"}]
    /\ apc' = [apc EXCEPT ![c] = "emb_call"]
    /\ UNCHANGED <<prefilled, agent_state, regVars, embVars, llmVars, task, oa>>

\* process_request: one attempt of the pipeline, up to its first provider call
AttemptBegin(c) ==
    /\ apc[c] = "attempt"
    /\ LoopFree(c)
    /\ LET err == Step1Error(acall[c].request, acall[c].security_context) IN
         IF err # None THEN RejectAtStep1(c, err) ELSE AcceptAtStep1(c)
    /\ UNCHANGED <<circuit_breaker, fail_streak, error_counts, calls>>

\* process_request: the wait between two attempts is over
Backoff(c) ==
    /\ apc[c] = "backoff"
    /\ LoopFree(c)
    /\ acall' = [acall EXCEPT ![c].attempt = @ + 1]
    /\ apc' = [apc EXCEPT ![c] = "attempt"]
    /\ UNCHANGED <<conversation_history, prefilled, append_log, agent_state, circuit_breaker,
                   fail_streak, error_counts, calls, clock, regVars, embVars, llmVars, task, oa>>

\* (mutant) get_conversation_context lets the exception through to process_request
ContextFailed_Propagates(c, why, eff) ==
    /\ acall' = [acall EXCEPT ![c].ctx_failure = why, ![c].effects = @ \cup eff,
                              ![c].error = why, ![c].raised = Surfaced(acall[c].attempt)]
    /\ apc' = [apc EXCEPT ![c] =
                 IF acall[c].attempt < MaxAttempts THEN "backoff" ELSE "raised"]

\* get_conversation_context: except Exception: log and return []
ContextFailed(c, why, eff) ==
    /\ acall' = [acall EXCEPT ![c].conv = <<>>, ![c].stage = "none",
                              ![c].ctx_failure = why, ![c].effects = @ \cup eff]
    /\ apc' = [apc EXCEPT ![c] = "select"]

\* (mutant) generate_embedding gives up on an error, which process_request retries
EmbeddingResponse_GivesUp(c) ==
    /\ apc[c] = "emb_call"
    /\ LoopFree(c)
    /\ \E out \in {"ok", "wrong_dimension", "error"} :
         IF out # "ok"
         THEN /\ acall' = [acall EXCEPT ![c].error = "Failed to generate embedding",
                                        ![c].raised = Surfaced(acall[c].attempt)]
              /\ apc' = [apc EXCEPT ![c] =
                           IF acall[c].attempt < MaxAttempts THEN "backoff" ELSE "raised"]
         ELSE LET a == acall[c] IN
              CASE a.stage = "request" ->
                     \* get_conversation_context: security validation, then generate_embedding
                     IF Truthy(a.security_context)
                        /\ validate_security_context(a.security_context) # None
                     THEN ContextFailed(c, validate_security_context(a.security_context), {})
                     ELSE /\ acall' = [acall EXCEPT ![c].stage = "context"]
                          /\ apc' = [apc EXCEPT ![c] = "emb_call"]
                [] a.stage = "context" ->
                     \* search_similar: generate_embedding(query_text)
                     /\ acall' = [acall EXCEPT ![c].stage = "search"]
                     /\ apc' = [apc EXCEPT ![c] = "emb_call"]
                [] OTHER ->
                     \* search_similar: self._pinecone_service.query(...)
                     /\ acall' = [acall EXCEPT ![c].stage = "none"]
                     /\ apc' = [apc EXCEPT ![c] = "query"]
    /\ UNCHANGED <<conversation_history, prefilled, append_log, agent_state, circuit_breaker,
                   fail_streak, error_counts, calls, clock, regVars, embVars, llmVars, task, oa>>

\* The provider answers an embedding call made by generate_embedding. An error is
\* retried by create_embedding, an embedding of the wrong dimension by
\* generate_embedding, both without a stop condition. With the embedding in hand
\* the pipeline goes on to its next provider call.
EmbeddingResponse(c) ==
    /\ apc[c] = "emb_call"
    /\ LoopFree(c)
    /\ \E out \in {"ok", "wrong_dimension", "error"} :
         IF out # "ok"
         THEN /\ apc' = [apc EXCEPT ![c] = "emb_wait"]
              /\ UNCHANGED acall
         ELSE LET a == acall[c] IN
              CASE a.stage = "request" ->
                     \* get_conversation_context: security validation, then generate_embedding
                     IF Truthy(a.security_context)
                        /\ validate_security_context(a.security_context) # None
                     THEN ContextFailed(c, validate_security_context(a.security_context), {})
                     ELSE /\ acall' = [acall EXCEPT ![c].stage = "context"]
                          /\ apc' = [apc EXCEPT ![c] = "emb_call"]
                [] a.stage = "context" ->
                     \* search_similar: generate_embedding(query_text)
                     /\ acall' = [acall EXCEPT ![c].stage = "search"]
                     /\ apc' = [apc EXCEPT ![c] = "emb_call"]
                [] OTHER ->
                     \* search_similar: self._pinecone_service.query(...)
                     /\ acall' = [acall EXCEPT ![c].stage = "none"]
                     /\ apc' = [apc EXCEPT ![c] = "query"]
    /\ UNCHANGED <<conversation_history, prefilled, append_log, agent_state, circuit_breaker,
                   fail_streak, error_counts, calls, clock, regVars, embVars, llmVars, task, oa>>

\* The wait before the next embedding attempt is over; the security context has aged
EmbeddingRetry(c) ==
    /\ apc[c] = "emb_wait"
    /\ LoopFree(c)
    /\ \E age \in AgesAfterWait(acall[c].security_context.age) :
         acall' = [acall EXCEPT ![c].security_context.age =
                     IF acall[c].security_context.type = "dict" THEN age ELSE @]
    /\ apc' = [apc EXCEPT ![c] = "emb_call"]
    /\ UNCHANGED <<conversation_history, prefilled, append_log, agent_state, circuit_breaker,
                   fail_streak, error_counts, calls, clock, regVars, embVars, llmVars, task, oa>>

\* PineconeService.query: an error is retried without a stop condition; the
\* matches are projected to role and content, a match without them gives []
VectorQuery(c) ==
    /\ apc[c] = "query"
    /\ \E out \in {"matches", "malformed", "error"} :
         CASE out = "error" ->
                /\ acall' = [acall EXCEPT ![c].effects = @ \cup {"vector"}]
                /\ UNCHANGED apc
           [] out = "matches" ->
                /\ acall' = [acall EXCEPT ![c].effects = @ \cup {"vector"},
                                          ![c].conv = <<[role |-> "user", content |-> "m"]>>]
                /\ apc' = [apc EXCEPT ![c] = "select"]
           [] OTHER ->
                ContextFailed(c, "KeyError", {"vector"})
    /\ UNCHANGED <<conversation_history, prefilled, append_log, agent_state, circuit_breaker,
                   fail_streak, error_counts, calls, clock, regVars, embVars, llmVars, task, oa>>

\* process_request: relevant_skills = await self._select_skills(request_embedding)
SelectSkills(c) ==
    /\ apc[c] = "select"
    /\ LoopFree(c)
    /\ acall' = [acall EXCEPT ![c].selected = select_skills(skills), ![c].k = 1]
    /\ apc' = [apc EXCEPT ![c] = "skill"]
    /\ UNCHANGED <<conversation_history, prefilled, append_log, agent_state, circuit_breaker,
                   fail_streak, error_counts, calls, clock, regVars, embVars, llmVars, task, oa>>

\* execute_skill raised: process_request logs it and goes on to the next skill
SkillFailed(c) ==
    /\ fail_streak' = Min(fail_streak + 1, failure_threshold)
    /\ apc' = [apc EXCEPT ![c] = "skill"]

\* process_request: the skill loop; execute_skill up to the language-model call.
\* LanguageModel.generate_text is called on the class, without an instance: every
\* attempt raises TypeError and tenacity waits before the next one.
ExecuteSkill(c) ==
    /\ apc[c] = "skill"
    /\ LoopFree(c)
    /\ LET a == acall[c] IN
         IF a.k > Len(a.selected)
         THEN /\ apc' = [apc EXCEPT ![c] = "update_state"]
              /\ UNCHANGED <<acall, fail_streak, error_counts>>
         ELSE LET id == get_skill(skills, a.selected[a.k]) IN
              IF id = 0 \/ opened(circuit_breaker)
              THEN /\ SkillFailed(c)
                   /\ acall' = [acall EXCEPT ![c].k = @ + 1]
                   /\ UNCHANGED error_counts
              ELSE IF ~validate_inputs(SkillDef[id], a.request, a.conv)
              THEN /\ SkillFailed(c)
                   /\ acall' = [acall EXCEPT ![c].k = @ + 1, ![c].entry_streak = fail_streak]
                   /\ UNCHANGED error_counts
              ELSE IF "base" \notin SkillDef[id].prompt_template.keys
              THEN /\ SkillFailed(c)
                   /\ acall' = [acall EXCEPT ![c].k = @ + 1, ![c].entry_streak = fail_streak]
                   /\ error_counts' = [error_counts EXCEPT ![a.selected[a.k]] = @ + 1]
              ELSE /\ acall' = [acall EXCEPT ![c].llm_attempt = 1,
                                             ![c].entry_streak = fail_streak]
                   /\ apc' = [apc EXCEPT ![c] = "llm_wait"]
                   /\ UNCHANGED <<fail_streak, error_counts>>
    /\ UNCHANGED <<conversation_history, prefilled, append_log, agent_state, circuit_breaker,
                   calls, clock, regVars, embVars, llmVars, task, oa>>

\* Skill.execute: the wait before the next generate_text attempt is over; the
\* attempt raises TypeError again and the last one ends in RetryError, which
\* Skill.execute counts and execute_skill re-raises
LlmRetry(c) ==
    /\ apc[c] = "llm_wait"
    /\ LoopFree(c)
    /\ LET a == acall[c] IN
         IF a.llm_attempt + 1 < LlmMaxAttempts
         THEN /\ acall' = [acall EXCEPT ![c].llm_attempt = @ + 1]
              /\ UNCHANGED <<apc, fail_streak, error_counts>>
         ELSE /\ SkillFailed(c)
              /\ acall' = [acall EXCEPT ![c].llm_attempt = 0, ![c].k = @ + 1]
              /\ error_counts' = [error_counts EXCEPT ![a.selected[a.k]] = @ + 1]
    /\ UNCHANGED <<conversation_history, prefilled, append_log, agent_state, circuit_breaker,
                   calls, clock, regVars, embVars, llmVars, task, oa>>

\* process_request: update_state({last_request, last_results, timestamp}) and the
\* response. An oversized state awaits self._cleanup_state(), whose loop has no exit.
UpdateState(c) ==
    /\ apc[c] = "update_state"
    /\ LoopFree(c)
    /\ LET a == acall[c] IN
         IF StateSize(a.request, a.results) > MAX_CONTEXT_LENGTH
         THEN /\ apc' = [apc EXCEPT ![c] = "cleanup"]
              /\ UNCHANGED <<agent_state, acall>>
         ELSE /\ agent_state' = [last_request |-> a.request, last_results |-> a.results,
                                  timestamp |-> clock] @@ agent_state
              /\ acall' = [acall EXCEPT ![c] =
                     [NoRequest EXCEPT !.request = a.request, !.results = a.results,
                                       !.appends = a.appends,
                                       !.effects = a.effects \cup {"state"}]]
              /\ apc' = [apc EXCEPT ![c] = "returned"]
    /\ UNCHANGED <<conversation_history, prefilled, append_log, circuit_breaker, fail_streak,
                   error_counts, calls, clock, regVars, embVars, llmVars, task, oa>>

\* _cleanup_state awaited by update_state: one round of its loop
InlineCleanup(c) ==
    /\ apc[c] = "cleanup"
    /\ LoopFree(c)
    /\ conversation_history' = cleanup_trim(conversation_history)
    /\ UNCHANGED <<prefilled, append_log, agent_state, circuit_breaker, fail_streak, error_counts,
                   apc, acall, calls, clock, regVars, embVars, llmVars, task, oa>>

\* _cleanup_state, the background task started by Agent.__init__: one round
CleanupTask ==
    /\ task["cleanup_state"] = [pc |-> "sleep", cancel_requested |-> FALSE]
    /\ \A c \in Callers : apc[c] # "query"
    /\ conversation_history' = cleanup_trim(conversation_history)
    /\ UNCHANGED <<prefilled, append_log, agent_state, circuit_breaker, fail_streak, error_counts,
                   apc, acall, calls, clock, regVars, embVars, llmVars, task, oa>>

CallerStep(c) ==
    \/ Start(c)
    \/ AttemptBegin(c)
    \/ Backoff(c)
    \/ EmbeddingResponse(c)
    \/ EmbeddingRetry(c)
    \/ VectorQuery(c)
    \/ SelectSkills(c)
    \/ ExecuteSkill(c)
    \/ LlmRetry(c)
    \/ UpdateState(c)
    \/ InlineCleanup(c)

Next == CleanupTask \/ \E c \in Callers : CallerStep(c)

\* ------------------------------------------ Agent: update_state, execute_skill
\* Direct calls of update_state and execute_skill started in a run
MaxDirectCalls == 3
\* calls of create_completion / create_chat_completion
MaxOaCalls == 2

\* len(repr(key)) of the one-character keys of the modelled states
KeySize == 3

RECURSIVE SumOfItems(_, _)
SumOfItems(state, keys) ==
    IF keys = {} THEN 0
    ELSE LET k == CHOOSE x \in keys : TRUE IN
         KeySize + 2 + state[k].len + 2 + SumOfItems(state, keys \ {k})

\* len(str(state)) of a dict of str values: braces, 'key': 'value' items, ', ' between
SerializedSize(state) ==
    IF DOMAIN state = {} THEN 2
    ELSE 2 + SumOfItems(state, DOMAIN state) + 2 * (Cardinality(DOMAIN state) - 1)

\* new_state values: dicts of str values, and a value that is no dict
NewStates ==
    {[type |-> "dict", items |-> <<>>],
     [type |-> "dict", items |-> ("a" :> Str(10))],
     [type |-> "dict", items |-> ("a" :> Str(3000))],
     [type |-> "dict", items |-> ("b" :> Str(3000))],
     [type |-> "dict", items |-> ("a" :> Str(5000))],
     [type |-> "list", items |-> <<>>]}

\* A caller invokes update_state(new_state). A value that is no dict raises
\* ValueError, which the handler turns into the return value False. A new_state
\* over the limit awaits self._cleanup_state(), whose loop has no exit. Else the
\* keys are merged into self._state and the call returns True.
CallUpdateState(c) ==
    /\ apc[c] \in {"idle", "returned", "raised"}
    /\ calls < MaxDirectCalls
    /\ calls' = calls + 1
    /\ \E new_state \in NewStates :
         LET call == [NoRequest EXCEPT !.op = "update_state", !.new_state = new_state] IN
         IF new_state.type # "dict"
         THEN /\ acall' = [acall EXCEPT ![c] = [call EXCEPT !.ret = "False",
                                                            !.error = "Invalid state format"]]
              /\ apc' = [apc EXCEPT ![c] = "returned"]
              /\ UNCHANGED agent_state
         ELSE IF SerializedSize(new_state.items) > MAX_CONTEXT_LENGTH
         THEN /\ acall' = [acall EXCEPT ![c] = call]
              /\ apc' = [apc EXCEPT ![c] = "cleanup"]
              /\ UNCHANGED agent_state
         ELSE /\ agent_state' = new_state.items @@ agent_state
              /\ acall' = [acall EXCEPT ![c] = [call EXCEPT !.ret = "True"]]
              /\ apc' = [apc EXCEPT ![c] = "returned"]
    /\ UNCHANGED <<conversation_history, prefilled, append_log, circuit_breaker, fail_streak,
                   error_counts, clock, regVars, embVars, llmVars, task, oa>>

\* (mutant) the lookup is checked after the inputs have been validated
RaiseNotFound_AfterValidation(c, call) ==
    /\ acall' = [acall EXCEPT ![c] = [call EXCEPT !.error = "Skill not found",
                                                 !.raised = "ValueError",
                                                 !.effects = {"validate_inputs"}]]
    /\ apc' = [apc EXCEPT ![c] = "raised"]

\* execute_skill: if not skill: raise ValueError(f"Skill not found: {skill_name}"),
\* which the handler logs and raises again
RaiseNotFound(c, call) ==
    /\ acall' = [acall EXCEPT ![c] = [call EXCEPT !.error = "Skill not found",
                                                 !.raised = "ValueError"]]
    /\ apc' = [apc EXCEPT ![c] = "raised"]

\* A caller invokes execute_skill(skill_name, {"request": ..., "context": []}):
\* the lookup, the circuit breaker, validate_inputs, then Skill.execute up to the
\* language-model call, which is made on the class and raises TypeError at every
\* attempt.
CallExecuteSkill(c) ==
    /\ apc[c] \in {"idle", "returned", "raised"}
    /\ calls < MaxDirectCalls
    /\ calls' = calls + 1
    /\ \E name \in AllNames :
         LET call == [NoRequest EXCEPT !.op = "execute_skill", !.skill_name = name,
                                       !.request = Str(5), !.entry_streak = fail_streak]
             id == get_skill(skills, name) IN
         IF id = 0
         THEN /\ RaiseNotFound(c, call)
              /\ UNCHANGED error_counts
         ELSE IF opened(circuit_breaker)
         THEN /\ acall' = [acall EXCEPT ![c] = [call EXCEPT !.error = "Circuit breaker is open",
                                                            !.raised = "RuntimeError"]]
              /\ apc' = [apc EXCEPT ![c] = "raised"]
              /\ UNCHANGED error_counts
         ELSE IF ~validate_inputs(SkillDef[id], call.request, <<>>)
         THEN /\ acall' = [acall EXCEPT ![c] = [call EXCEPT !.error = "Invalid inputs",
                                                            !.raised = "ValueError",
                                                            !.effects = {"validate_inputs"}]]
              /\ apc' = [apc EXCEPT ![c] = "raised"]
              /\ UNCHANGED error_counts
         ELSE IF "base" \notin SkillDef[id].prompt_template.keys
         THEN /\ acall' = [acall EXCEPT ![c] = [call EXCEPT !.error = "base",
                                                            !.raised = "KeyError",
                                                            !.effects = {"validate_inputs"}]]
              /\ apc' = [apc EXCEPT ![c] = "raised"]
              /\ error_counts' = [error_counts EXCEPT ![name] = @ + 1]
         ELSE /\ acall' = [acall EXCEPT ![c] = [call EXCEPT !.llm_attempt = 1,
                                                            !.effects = {"validate_inputs", "llm"}]]
              /\ apc' = [apc EXCEPT ![c] = "direct_llm_wait"]
              /\ UNCHANGED error_counts
    /\ fail_streak' = IF apc'[c] = "raised" THEN Min(fail_streak + 1, failure_threshold)
                      ELSE fail_streak
    /\ UNCHANGED <<conversation_history, prefilled, append_log, agent_state, circuit_breaker,
                   clock, regVars, embVars, llmVars, task, oa>>

\* Skill.execute called by execute_skill: the wait before the next generate_text
\* attempt is over; the attempt raises TypeError again and the last one ends in
\* RetryError, which Skill.execute counts and execute_skill raises again
DirectLlmRetry(c) ==
    /\ apc[c] = "direct_llm_wait"
    /\ LET a == acall[c] IN
         IF a.llm_attempt + 1 < LlmMaxAttempts
         THEN /\ acall' = [acall EXCEPT ![c].llm_attempt = @ + 1]
              /\ UNCHANGED <<apc, fail_streak, error_counts>>
         ELSE /\ acall' = [acall EXCEPT ![c].llm_attempt = 0, ![c].error = "RetryError",
                                        ![c].raised = "RetryError",
                                        ![c].bumped = Append(@, "execution_errors")]
              /\ apc' = [apc EXCEPT ![c] = "raised"]
              /\ fail_streak' = IF a.op = "execute_skill"
                                THEN Min(fail_streak + 1, failure_threshold) ELSE fail_streak
              /\ error_counts' = [error_counts EXCEPT ![a.skill_name] = @ + 1]
    /\ UNCHANGED <<conversation_history, prefilled, append_log, agent_state, circuit_breaker,
                   calls, clock, regVars, embVars, llmVars, task, oa>>

\* (mutant) the size of the inputs is not checked
ValidateInputs_NoSizeCheck(skill, inputs) ==
    IF skill.input_schema.keys = {} THEN "valid"
    ELSE IF inputs.type # "dict" THEN "raised"
    ELSE IF \A kt \in skill.input_schema.keys : kt \in inputs.items THEN "valid"
    ELSE "invalid"

\* Skill.validate_inputs: "valid" for (True, None), "invalid" for a failed check,
\* "raised" when a check itself raises, which the handler counts in
\* validation_errors before it returns (False, message)
ValidateInputs(skill, inputs) ==
    IF inputs.size > max_input_size THEN "invalid"
    ELSE IF skill.input_schema.keys = {} THEN "valid"
    ELSE IF inputs.type # "dict" THEN "raised"
    ELSE IF \A kt \in skill.input_schema.keys : kt \in inputs.items THEN "valid"
    ELSE "invalid"

\* inputs values by their type, len(str(inputs)) and the (key, type of value) pairs
SkillInputs ==
    {[type |-> "dict", size |-> 50, items |-> {<<"request", "str">>, <<"context", "list">>}],
     [type |-> "dict", size |-> max_input_size,
      items |-> {<<"request", "str">>, <<"context", "list">>}],
     [type |-> "dict", size |-> max_input_size + 1,
      items |-> {<<"request", "str">>, <<"context", "list">>}],
     [type |-> "dict", size |-> 50, items |-> {<<"context", "list">>}],
     [type |-> "dict", size |-> 50, items |-> {<<"request", "int">>, <<"context", "list">>}],
     [type |-> "NoneType", size |-> 4, items |-> {}]}

\* A caller invokes Skill.execute(inputs) on a registered skill: validate_inputs,
\* the base prompt template, then the language-model call, which is made on the
\* class and raises TypeError at every attempt. Every failure is counted in
\* execution_errors by the handler and raised again.
CallSkillExecute(c) ==
    /\ apc[c] \in {"idle", "returned", "raised"}
    /\ calls < MaxDirectCalls
    /\ calls' = calls + 1
    /\ \E name \in Names(skills), inputs \in SkillInputs :
         LET call == [NoRequest EXCEPT !.op = "skill_execute", !.skill_name = name,
                                       !.inputs = inputs]
             skill == SkillDef[get_skill(skills, name)]
             v == ValidateInputs(skill, inputs) IN
         IF v # "valid"
         THEN /\ acall' = [acall EXCEPT ![c] =
                    [call EXCEPT !.error = "Input validation failed", !.raised = "ValueError",
                                 !.effects = {"validate_inputs"},
                                 !.bumped = IF v = "raised"
                                            THEN <<"validation_errors", "execution_errors">>
                                            ELSE <<"execution_errors">>]]
              /\ apc' = [apc EXCEPT ![c] = "raised"]
              /\ error_counts' = [error_counts EXCEPT ![name] = @ + 1]
         ELSE IF "base" \notin skill.prompt_template.keys
         THEN /\ acall' = [acall EXCEPT ![c] =
                    [call EXCEPT !.error = "base", !.raised = "KeyError",
                                 !.effects = {"validate_inputs"},
                                 !.bumped = <<"execution_errors">>]]
              /\ apc' = [apc EXCEPT ![c] = "raised"]
              /\ error_counts' = [error_counts EXCEPT ![name] = @ + 1]
         ELSE /\ acall' = [acall EXCEPT ![c] =
                    [call EXCEPT !.llm_attempt = 1,
                                 !.effects = {"validate_inputs", "render", "llm"}]]
              /\ apc' = [apc EXCEPT ![c] = "direct_llm_wait"]
              /\ UNCHANGED error_counts
    /\ UNCHANGED <<conversation_history, prefilled, append_log, agent_state, circuit_breaker,
                   fail_streak, clock, regVars, embVars, llmVars, task, oa>>

DirectStep(c) ==
    \/ CallUpdateState(c)
    \/ InlineCleanup(c)
    \/ CallExecuteSkill(c)
    \/ CallSkillExecute(c)
    \/ DirectLlmRetry(c)

DirectNext == CleanupTask \/ \E c \in Callers : DirectStep(c)

\* ------------------------------------------------------ EmbeddingService
BATCH_SIZE == 100
\* Settings.embedding_dimension (DEFAULT_EMBEDDING_DIMENSION)
embedding_dimension == 1536

\* EmbeddingService calls started in a run
MaxEmbCalls == 2
\* Full batches of the longest list handed to store_embeddings
MaxBatches == 2
\* Wrong-dimension responses counted per generate_embedding call
MaxMismatches == 2
\* Attempts counted per invocation of an adapter operation
MaxAttemptsCounted == 4

nonEmbVars == <<regVars, clock, agentVars, llmVars, oa>>

\* The lengths of the embeddings the provider returns
ProviderLengths == {embedding_dimension, 100}

\* text values: a str, the empty str, or a value that is no str
Texts == {Str(5), Str(0), [type |-> "int", len |-> 0]}

\* text_data of n items (id, text, metadata), ids and metadata distinct
Items(n) == [k \in 1..n |-> [id |-> k, text |-> Str(5), metadata |-> <<"meta", k>>]]
ItemCounts == {0, 1, BATCH_SIZE, BATCH_SIZE + 1, MaxBatches * BATCH_SIZE + 50}
\* the lists test_store_embeddings stores through the double
DoubleItemCounts == {0, 2, BATCH_SIZE + 50}

\* self._pinecone_service: the PineconeService the constructor builds, or the double
\* the unit tests put in its place
Stores == {"pinecone", "double"}

\* The lengths of the vectors a caller hands to PineconeService.upsert_vectors
VectorLengths == {<<embedding_dimension>>, <<100>>, <<embedding_dimension, 100>>}

\* vector_data: (id, vector, metadata) for each length
Vectors(lengths) ==
    [k \in 1..Len(lengths) |-> [id |-> k, embedding |-> lengths[k], metadata |-> <<"meta", k>>]]

\* attempts: provider or index calls made by the adapter operation in progress,
\* 0 when none is;
\* results: what upsert_vectors gave for each batch of store_embeddings so far;
\* dim_failed: the dimension check of upsert_vectors or query has failed
NoEmbCall ==
    [op |-> "none", text |-> NoneValue, text_data |-> <<>>, top_k |-> 0,
     i |-> 0, batch |-> <<>>, j |-> 0, vector_data |-> <<>>, success |-> TRUE,
     embedding |-> 0, mismatches |-> 0, rejected |-> FALSE, ret |-> None, error |-> None,
     store |-> "pinecone", results |-> <<>>, attempts |-> 0, dim_failed |-> FALSE,
     raised |-> None, vector_ids |-> <<>>]

\* The state of the EmbeddingService variables when it is exercised through the
\* Agent or not at all
EmbeddingUnused ==
    /\ epc = "idle"
    /\ ecall = NoEmbCall
    /\ upsert_log = <<>>
    /\ query_log = <<>>
    /\ emb_calls = 0

\* EmbeddingService.__init__
EmbeddingInit == EmbeddingUnused

\* if not text or not isinstance(text, str)
InvalidText(text) == text.type # "str" \/ text.len = 0

\* (mutant) the dimension of the provider's embedding is not checked
DimensionOk_Unchecked(embedding) == TRUE

\* generate_embedding: len(embedding) == self._embedding_dimension
DimensionOk(embedding) == embedding = embedding_dimension

\* (mutant) the slice runs one item too far
Batch_OneTooFar(text_data, i) ==
    SubSeq(text_data, i + 1, Min(i + BATCH_SIZE + 1, Len(text_data)))

\* store_embeddings: text_data[i:i + BATCH_SIZE]
Batch(text_data, i) ==
    SubSeq(text_data, i + 1, Min(i + BATCH_SIZE, Len(text_data)))

\* A call of generate_embedding begins, for the caller or inside store_embeddings
\* and search_similar
BeginGenerate(call, text) ==
    [call EXCEPT !.text = text, !.embedding = 0, !.mismatches = 0]

\* A caller invokes generate_embedding(text).
CallGenerate ==
    /\ epc \in {"idle", "returned", "raised"}
    /\ emb_calls < MaxEmbCalls
    /\ \E text \in Texts :
         ecall' = BeginGenerate([NoEmbCall EXCEPT !.op = "generate"], text)
    /\ epc' = "gen_begin"
    /\ upsert_log' = <<>>
    /\ query_log' = <<>>
    /\ emb_calls' = emb_calls + 1
    /\ UNCHANGED nonEmbVars

\* A caller invokes store_embeddings(text_data): an empty list raises ValueError,
\* which the handler raises again as RuntimeError.
CallStore ==
    /\ epc \in {"idle", "returned", "raised"}
    /\ emb_calls < MaxEmbCalls
    /\ \E store \in Stores :
       \E n \in IF store = "double" THEN DoubleItemCounts ELSE ItemCounts :
         IF n = 0
         THEN /\ ecall' = [NoEmbCall EXCEPT !.op = "store", !.store = store,
                                            !.error = "No text data provided for embedding storage",
                                            !.raised = "RuntimeError"]
              /\ epc' = "raised"
         ELSE /\ ecall' = [NoEmbCall EXCEPT !.op = "store", !.store = store,
                                            !.text_data = Items(n)]
              /\ epc' = "store_batch"
    /\ upsert_log' = <<>>
    /\ query_log' = <<>>
    /\ emb_calls' = emb_calls + 1
    /\ UNCHANGED nonEmbVars

\* A caller invokes search_similar(query_text, top_k): an empty query or a top_k
\* below 1 raises ValueError, which the handler raises again as RuntimeError.
CallSearch ==
    /\ epc \in {"idle", "returned", "raised"}
    /\ emb_calls < MaxEmbCalls
    /\ \E text \in {Str(5), Str(0)}, top_k \in {0, 5} :
         IF text.len = 0 \/ top_k < 1
         THEN /\ ecall' = [NoEmbCall EXCEPT !.op = "search", !.top_k = top_k,
                                            !.error = IF text.len = 0
                                                      THEN "Query text cannot be empty"
                                                      ELSE "top_k must be positive",
                                            !.raised = "RuntimeError"]
              /\ epc' = "raised"
         ELSE /\ ecall' = BeginGenerate([NoEmbCall EXCEPT !.op = "search", !.top_k = top_k], text)
              /\ epc' = "gen_begin"
    /\ upsert_log' = <<>>
    /\ query_log' = <<>>
    /\ emb_calls' = emb_calls + 1
    /\ UNCHANGED nonEmbVars

\* A caller invokes PineconeService.upsert_vectors(vector_data).
CallUpsert ==
    /\ epc \in {"idle", "returned", "raised"}
    /\ emb_calls < MaxEmbCalls
    /\ \E lengths \in VectorLengths :
         ecall' = [NoEmbCall EXCEPT !.op = "upsert", !.vector_data = Vectors(lengths)]
    /\ epc' = "upsert"
    /\ upsert_log' = <<>>
    /\ query_log' = <<>>
    /\ emb_calls' = emb_calls + 1
    /\ UNCHANGED nonEmbVars

\* A caller invokes PineconeService.query(query_vector) with the default top_k.
CallQuery ==
    /\ epc \in {"idle", "returned", "raised"}
    /\ emb_calls < MaxEmbCalls
    /\ \E length \in ProviderLengths :
         ecall' = [NoEmbCall EXCEPT !.op = "query", !.embedding = length, !.top_k = 10]
    /\ epc' = "query"
    /\ upsert_log' = <<>>
    /\ query_log' = <<>>
    /\ emb_calls' = emb_calls + 1
    /\ UNCHANGED nonEmbVars

\* vector_ids values: a list of str ids, the empty list, a list of int ids
VectorIdLists == {<<"str", "str", "str">>, <<>>, <<"int", "int", "int">>}

\* delete_embeddings: if not vector_ids or not all(isinstance(id_, str) ...)
InvalidVectorIds(vector_ids) ==
    vector_ids = <<>> \/ \E k \in 1..Len(vector_ids) : vector_ids[k] # "str"

\* A caller invokes delete_embeddings(vector_ids): invalid ids raise ValueError,
\* which the handler raises again as RuntimeError; else delete_vectors is called.
CallDelete ==
    /\ epc \in {"idle", "returned", "raised"}
    /\ emb_calls < MaxEmbCalls
    /\ \E vector_ids \in VectorIdLists :
         IF InvalidVectorIds(vector_ids)
         THEN /\ ecall' = [NoEmbCall EXCEPT !.op = "delete", !.vector_ids = vector_ids,
                                            !.error = "Invalid vector IDs provided",
                                            !.raised = "RuntimeError"]
              /\ epc' = "raised"
         ELSE /\ ecall' = [NoEmbCall EXCEPT !.op = "delete", !.vector_ids = vector_ids]
              /\ epc' = "delete"
    /\ upsert_log' = <<>>
    /\ query_log' = <<>>
    /\ emb_calls' = emb_calls + 1
    /\ UNCHANGED nonEmbVars

\* PineconeService.delete_vectors: an error of the index is raised again as
\* RuntimeError and retried without a stop condition; else it returns True
Delete ==
    /\ epc = "delete"
    /\ \E out \in {"ok", "error"} :
         IF out = "ok"
         THEN /\ ecall' = [ecall EXCEPT !.attempts = 0, !.ret = TRUE]
              /\ epc' = "returned"
         ELSE /\ ecall' = [ecall EXCEPT !.attempts = Min(@ + 1, MaxAttemptsCounted),
                                        !.error = "Failed to delete vectors"]
              /\ epc' = "delete_wait"
    /\ UNCHANGED <<upsert_log, query_log, emb_calls, nonEmbVars>>

\* delete_vectors: the wait before its next attempt is over
DeleteRetry ==
    /\ epc = "delete_wait"
    /\ epc' = "delete"
    /\ UNCHANGED <<ecall, upsert_log, query_log, emb_calls, nonEmbVars>>

\* generate_embedding: one attempt, up to the provider call. An invalid text
\* raises ValueError, the handler raises RuntimeError and the retry decorator,
\* which has no stop condition, waits for the next attempt.
GenerateAttempt ==
    /\ epc = "gen_begin"
    /\ epc' = IF InvalidText(ecall.text) THEN "gen_wait" ELSE "gen_call"
    /\ ecall' = [ecall EXCEPT !.error = IF InvalidText(ecall.text)
                                        THEN "Input text must be a non-empty string" ELSE @]
    /\ UNCHANGED <<upsert_log, query_log, emb_calls, nonEmbVars>>

\* The provider answers create_embedding. An error is retried by create_embedding
\* itself; an embedding of the wrong dimension raises ValueError in
\* generate_embedding, which its retry decorator retries.
ProviderResponse ==
    /\ epc = "gen_call"
    /\ \/ /\ epc' = "provider_wait"
          /\ ecall' = [ecall EXCEPT !.attempts = Min(@ + 1, MaxAttemptsCounted)]
       \/ \E length \in ProviderLengths :
            IF DimensionOk(length)
            THEN /\ ecall' = [ecall EXCEPT !.embedding = length, !.attempts = 0]
                 /\ epc' = "gen_done"
            ELSE /\ ecall' = [ecall EXCEPT !.mismatches = Min(@ + 1, MaxMismatches),
                                           !.rejected = TRUE, !.attempts = 0,
                                           !.error = "Generated embedding dimension does not match"]
                 /\ epc' = "gen_wait"
    /\ UNCHANGED <<upsert_log, query_log, emb_calls, nonEmbVars>>

\* create_embedding: the wait before its next attempt is over
ProviderRetry ==
    /\ epc = "provider_wait"
    /\ epc' = "gen_call"
    /\ UNCHANGED <<ecall, upsert_log, query_log, emb_calls, nonEmbVars>>

\* generate_embedding: the wait before its next attempt is over
GenerateRetry ==
    /\ epc = "gen_wait"
    /\ epc' = "gen_begin"
    /\ UNCHANGED <<ecall, upsert_log, query_log, emb_calls, nonEmbVars>>

\* generate_embedding returns the embedding to its caller
GenerateReturn ==
    /\ epc = "gen_done"
    /\ ecall.op = "generate"
    /\ ecall' = [ecall EXCEPT !.ret = ecall.embedding]
    /\ epc' = "returned"
    /\ UNCHANGED <<upsert_log, query_log, emb_calls, nonEmbVars>>

\* store_embeddings: the head of the batch loop; after the last batch it returns success
StoreBatch ==
    /\ epc = "store_batch"
    /\ IF ecall.i >= Len(ecall.text_data)
       THEN /\ ecall' = [ecall EXCEPT !.ret = ecall.success]
            /\ epc' = "returned"
       ELSE LET batch == Batch(ecall.text_data, ecall.i) IN
            /\ ecall' = BeginGenerate([ecall EXCEPT !.batch = batch, !.vector_data = <<>>,
                                                    !.j = 1], batch[1].text)
            /\ epc' = "gen_begin"
    /\ UNCHANGED <<upsert_log, query_log, emb_calls, nonEmbVars>>

\* store_embeddings: vector_data.append((id_, embedding, metadata)), then the next
\* item of the batch or self._pinecone_service.upsert_vectors(vector_data)
StoreAppend ==
    /\ epc = "gen_done"
    /\ ecall.op = "store"
    /\ LET item == ecall.batch[ecall.j]
           vector_data == Append(ecall.vector_data,
                                 [id |-> item.id, embedding |-> ecall.embedding,
                                  metadata |-> item.metadata]) IN
         IF ecall.j < Len(ecall.batch)
         THEN /\ ecall' = BeginGenerate([ecall EXCEPT !.vector_data = vector_data, !.j = @ + 1],
                                        ecall.batch[ecall.j + 1].text)
              /\ epc' = "gen_begin"
              /\ UNCHANGED upsert_log
         ELSE /\ ecall' = [ecall EXCEPT !.vector_data = vector_data]
              /\ epc' = "upsert"
              /\ upsert_log' = Append(upsert_log, vector_data)
    /\ UNCHANGED <<query_log, emb_calls, nonEmbVars>>

\* store_embeddings: success = success and batch_success, then the next batch
BatchStored(call, batch_success) ==
    [call EXCEPT !.success = @ /\ (batch_success = "True"),
                 !.results = Append(@, batch_success),
                 !.i = @ + BATCH_SIZE]

\* PineconeService.upsert_vectors: a vector of the wrong dimension raises
\* ValueError before the index is called, an error of the index raises too; the
\* handler raises either again as RuntimeError, which the retry decorator retries
\* without a stop condition. Else it returns True, to the caller or to
\* store_embeddings, which goes to the next batch.
Upsert ==
    /\ epc = "upsert"
    /\ ecall.store = "pinecone"
    /\ IF \E k \in 1..Len(ecall.vector_data) :
             ecall.vector_data[k].embedding # embedding_dimension
       THEN /\ ecall' = [ecall EXCEPT !.dim_failed = TRUE,
                                      !.error = "Failed to upsert vectors: Vector dimension does not match index dimension"]
            /\ epc' = "upsert_wait"
       ELSE \E out \in {"ok", "error"} :
              IF out = "error"
              THEN /\ ecall' = [ecall EXCEPT !.attempts = Min(@ + 1, MaxAttemptsCounted),
                                             !.error = "Failed to upsert vectors"]
                   /\ epc' = "upsert_wait"
              ELSE IF ecall.op = "store"
              THEN /\ ecall' = BatchStored([ecall EXCEPT !.attempts = 0], "True")
                   /\ epc' = "store_batch"
              ELSE /\ ecall' = [ecall EXCEPT !.attempts = 0, !.ret = TRUE]
                   /\ epc' = "returned"
    /\ UNCHANGED <<upsert_log, query_log, emb_calls, nonEmbVars>>

\* The double of the unit tests answers upsert_vectors with the value the test
\* has set, True or False, or raises the error the test has set, which
\* store_embeddings raises again as RuntimeError.
UpsertDouble ==
    /\ epc = "upsert"
    /\ ecall.store = "double"
    /\ \E out \in {"True", "False", "raise"} :
         IF out = "raise"
         THEN /\ ecall' = [ecall EXCEPT !.results = Append(@, out),
                                        !.error = "Failed to store embeddings: Storage Error",
                                        !.raised = "RuntimeError"]
              /\ epc' = "raised"
         ELSE /\ ecall' = BatchStored(ecall, out)
              /\ epc' = "store_batch"
    /\ UNCHANGED <<upsert_log, query_log, emb_calls, nonEmbVars>>

\* upsert_vectors: the wait before its next attempt is over
UpsertRetry ==
    /\ epc = "upsert_wait"
    /\ epc' = "upsert"
    /\ UNCHANGED <<ecall, upsert_log, query_log, emb_calls, nonEmbVars>>

\* search_similar: self._pinecone_service.query(query_vector=query_embedding, ...)
SearchQuery ==
    /\ epc = "gen_done"
    /\ ecall.op = "search"
    /\ query_log' = Append(query_log, ecall.embedding)
    /\ epc' = "query"
    /\ UNCHANGED <<ecall, upsert_log, emb_calls, nonEmbVars>>

\* PineconeService.query: a vector of the wrong dimension raises ValueError
\* before the index is called, an error of the index raises too; either is
\* raised again as RuntimeError and retried without a stop condition. Else the
\* matches go back to the caller or through search_similar.
Query ==
    /\ epc = "query"
    /\ IF ecall.embedding # embedding_dimension
       THEN /\ ecall' = [ecall EXCEPT !.dim_failed = TRUE,
                                      !.error = "Failed to query vectors: Query vector dimension does not match index dimension"]
            /\ epc' = "query_wait"
       ELSE \E out \in {"ok", "error"} :
              IF out = "ok"
              THEN /\ ecall' = [ecall EXCEPT !.attempts = 0, !.ret = "matches"]
                   /\ epc' = "returned"
              ELSE /\ ecall' = [ecall EXCEPT !.attempts = Min(@ + 1, MaxAttemptsCounted),
                                             !.error = "Failed to query vectors"]
                   /\ epc' = "query_wait"
    /\ UNCHANGED <<upsert_log, query_log, emb_calls, nonEmbVars>>

\* query: the wait before its next attempt is over
QueryRetry ==
    /\ epc = "query_wait"
    /\ epc' = "query"
    /\ UNCHANGED <<ecall, upsert_log, query_log, emb_calls, nonEmbVars>>

EmbeddingNext ==
    \/ CallGenerate
    \/ CallStore
    \/ CallSearch
    \/ CallUpsert
    \/ CallQuery
    \/ GenerateAttempt
    \/ ProviderResponse
    \/ ProviderRetry
    \/ GenerateRetry
    \/ GenerateReturn
    \/ StoreBatch
    \/ StoreAppend
    \/ Upsert
    \/ UpsertDouble
    \/ UpsertRetry
    \/ SearchQuery
    \/ Query
    \/ QueryRetry
    \/ CallDelete
    \/ Delete
    \/ DeleteRetry

\* ------------------------------------------------------ LanguageModel
\* self._model_config.get('max_concurrent_requests', 10); get_llm_config has no such key
max_concurrent_requests == 10

\* Coroutines that call one LanguageModel at the same time
MaxLlmCallers == 11

\* Optional[...] values: <<>> is None, <<v>> is v
Absent == <<>>

\* prompt values by their length and their length after strip()
LlmPrompts == {[len |-> 5, stripped |-> 5], [len |-> 0, stripped |-> 0], [len |-> 3, stripped |-> 0]}
\* temperature values, in tenths
LlmTemperatures == {Absent, <<7>>, <<15>>}
LlmMaxTokens == {Absent, <<100>>, <<0>>}

\* LLMRequest.validate_prompt
validate_prompt(v) == ~(v.len = 0 \/ v.stripped = 0)
\* LLMRequest.validate_temperature: 0 <= v <= 1, v in tenths
validate_temperature(v) == v = Absent \/ (0 <= v[1] /\ v[1] <= 10)
\* LLMRequest.validate_max_tokens
validate_max_tokens(v) == v = Absent \/ ~(v[1] < 1)

\* LLMRequest(prompt=..., temperature=..., max_tokens=...) is constructed
ValidLLMRequest(prompt, temperature, max_tokens) ==
    /\ validate_prompt(prompt)
    /\ validate_temperature(temperature)
    /\ validate_max_tokens(max_tokens)

\* No call is in progress
NoLlmCalls ==
    [text_blocked |-> 0, text_flight |-> 0, text_wait |-> 0, emb_flight |-> 0, emb_wait |-> 0,
     validation_wait |-> [a \in 1..(LlmMaxAttempts - 1) |-> 0]]

\* Callers inside a call
Busy(l) ==
    l.text_blocked + l.text_flight + l.text_wait + l.emb_flight + l.emb_wait
        + l.validation_wait[1] + l.validation_wait[2]

\* An OpenAIService on which no call has been made
NoOaCall ==
    [pc |-> "idle", endpoint |-> None, input_ok |-> TRUE, model |-> Absent,
     temperature |-> Absent, max_tokens |-> Absent, additional_params |-> Absent,
     sent |-> Absent, calls |-> 0]

\* The state of the LanguageModel's variables when it is not exercised
LlmUnused ==
    /\ permits = max_concurrent_requests
    /\ lm = NoLlmCalls
    /\ lm_outcome = None
    /\ oa = NoOaCall

\* LanguageModel.__init__
LlmInit == LlmUnused

\* (mutant) the permit is given back on return only
ExitRateLimiter_KeepsOnRaise(value, raised) == IF raised THEN value ELSE value + 1

\* async with self._rate_limiter: leaving the block releases the permit, whether
\* the block returned or raised
ExitRateLimiter(value, raised) == value + 1

\* A caller invokes generate_text(prompt, temperature, max_tokens). An invalid
\* request raises ValueError before the rate limiter; the decorator, which has no
\* retry predicate, waits for the next attempt. A valid one enters the rate
\* limiter, or waits for a permit, and calls the provider.
CallGenerateText ==
    /\ Busy(lm) < MaxLlmCallers
    /\ \E prompt \in LlmPrompts, temperature \in LlmTemperatures, max_tokens \in LlmMaxTokens :
         IF ~ValidLLMRequest(prompt, temperature, max_tokens)
         THEN /\ lm' = [lm EXCEPT !.validation_wait[1] = @ + 1]
              /\ UNCHANGED permits
         ELSE IF permits > 0
         THEN /\ permits' = permits - 1
              /\ lm' = [lm EXCEPT !.text_flight = @ + 1]
         ELSE /\ lm' = [lm EXCEPT !.text_blocked = @ + 1]
              /\ UNCHANGED permits
    /\ UNCHANGED <<lm_outcome, regVars, clock, agentVars, embVars, oa>>

\* generate_text: the wait after failed attempt a is over; the request is
\* validated again and fails again, and after the last attempt tenacity raises
\* RetryError
ValidationRetry ==
    /\ \E a \in 1..(LlmMaxAttempts - 1) :
         /\ lm.validation_wait[a] > 0
         /\ IF a + 1 < LlmMaxAttempts
            THEN /\ lm' = [lm EXCEPT !.validation_wait[a] = @ - 1,
                                     !.validation_wait[a + 1] = @ + 1]
                 /\ UNCHANGED lm_outcome
            ELSE /\ lm' = [lm EXCEPT !.validation_wait[a] = @ - 1]
                 /\ lm_outcome' = "RetryError"
    /\ UNCHANGED <<permits, regVars, clock, agentVars, embVars, oa>>

\* A caller waiting at the rate limiter gets a permit and calls the provider
AcquirePermit ==
    /\ lm.text_blocked > 0
    /\ permits > 0
    /\ permits' = permits - 1
    /\ lm' = [lm EXCEPT !.text_blocked = @ - 1, !.text_flight = @ + 1]
    /\ UNCHANGED <<lm_outcome, regVars, clock, agentVars, embVars, oa>>

\* The provider answers create_completion: the completion is returned and the
\* permit released; an error is retried by create_completion itself, inside the
\* rate limiter
CompletionResponse ==
    /\ lm.text_flight > 0
    /\ \E out \in {"ok", "error"} :
         IF out = "ok"
         THEN /\ permits' = ExitRateLimiter(permits, FALSE)
              /\ lm' = [lm EXCEPT !.text_flight = @ - 1]
              /\ lm_outcome' = "completion"
         ELSE /\ lm' = [lm EXCEPT !.text_flight = @ - 1, !.text_wait = @ + 1]
              /\ UNCHANGED <<permits, lm_outcome>>
    /\ UNCHANGED <<regVars, clock, agentVars, embVars, oa>>

\* create_completion: the wait before its next attempt is over
CompletionRetry ==
    /\ lm.text_wait > 0
    /\ lm' = [lm EXCEPT !.text_wait = @ - 1, !.text_flight = @ + 1]
    /\ UNCHANGED <<permits, lm_outcome, regVars, clock, agentVars, embVars, oa>>

\* The task of a caller inside the rate limiter is cancelled: CancelledError is
\* raised at the await, is no Exception for the retry decorators and the
\* handlers, and leaves the block
CompletionCancelled ==
    /\ \/ /\ lm.text_flight > 0
          /\ lm' = [lm EXCEPT !.text_flight = @ - 1]
       \/ /\ lm.text_wait > 0
          /\ lm' = [lm EXCEPT !.text_wait = @ - 1]
    /\ permits' = ExitRateLimiter(permits, TRUE)
    /\ lm_outcome' = "CancelledError"
    /\ UNCHANGED <<regVars, clock, agentVars, embVars, oa>>

\* A caller invokes get_embedding(text): an empty text raises ValueError, which
\* the handler raises again as RuntimeError; else create_embedding is called,
\* without the rate limiter
CallGetEmbedding ==
    /\ Busy(lm) < MaxLlmCallers
    /\ \E text \in LlmPrompts :
         IF text.stripped = 0
         THEN /\ lm_outcome' = "RuntimeError"
              /\ UNCHANGED lm
         ELSE /\ lm' = [lm EXCEPT !.emb_flight = @ + 1]
              /\ UNCHANGED lm_outcome
    /\ UNCHANGED <<permits, regVars, clock, agentVars, embVars, oa>>

\* The provider answers create_embedding for get_embedding; an error is retried
\* by create_embedding itself
EmbeddingAnswer ==
    /\ lm.emb_flight > 0
    /\ \E out \in {"ok", "error"} :
         IF out = "ok"
         THEN /\ lm' = [lm EXCEPT !.emb_flight = @ - 1]
              /\ lm_outcome' = "embedding"
         ELSE /\ lm' = [lm EXCEPT !.emb_flight = @ - 1, !.emb_wait = @ + 1]
              /\ UNCHANGED lm_outcome
    /\ UNCHANGED <<permits, regVars, clock, agentVars, embVars, oa>>

\* create_embedding: the wait before its next attempt is over
EmbeddingAnswerRetry ==
    /\ lm.emb_wait > 0
    /\ lm' = [lm EXCEPT !.emb_wait = @ - 1, !.emb_flight = @ + 1]
    /\ UNCHANGED <<permits, lm_outcome, regVars, clock, agentVars, embVars, oa>>

LlmNext ==
    \/ CallGenerateText
    \/ ValidationRetry
    \/ AcquirePermit
    \/ CompletionResponse
    \/ CompletionRetry
    \/ CompletionCancelled
    \/ CallGetEmbedding
    \/ EmbeddingAnswer
    \/ EmbeddingAnswerRetry

\* An Agent after construction, registrations and earlier requests; its registry idle
Init == AgentInit /\ RegistryUnused /\ EmbeddingUnused /\ LlmUnused

Spec == Init /\ [][Next]_vars

\* The event loop runs every coroutine that is ready, and every wait ends.
FairSpec == Spec /\ \A c \in Callers : WF_vars(CallerStep(c))

RegistryNext == \E t \in Threads : ThreadStep(t)

\* A registry after construction, used on its own
InitRegistry == RegistryInit /\ AgentUnused /\ EmbeddingUnused /\ LlmUnused

SpecRegistry == InitRegistry /\ [][RegistryNext]_vars

\* Every thread that can take a step eventually takes one (the scheduler starves no
\* runnable thread).
FairSpecRegistry == SpecRegistry /\ \A t \in Threads : WF_vars(ThreadStep(t))

\* An EmbeddingService after construction, used on its own
InitEmbedding ==
    /\ EmbeddingInit /\ AgentUnused /\ RegistryUnused /\ LlmUnused
    /\ clock = 0 /\ skills = <<>> /\ metrics = <<>>

SpecEmbedding == InitEmbedding /\ [][EmbeddingNext]_vars

\* Every step that is ready is eventually taken: every wait ends and every
\* request to a provider is answered.
FairSpecEmbedding == SpecEmbedding /\ WF_vars(EmbeddingNext)

\* An Agent after construction and registrations, whose update_state and
\* execute_skill are called directly
SpecDirect == Init /\ [][DirectNext]_vars

\* The event loop runs every coroutine that is ready, and every wait ends.
FairSpecDirect == SpecDirect /\ \A c \in Callers : WF_vars(DirectStep(c))

\* (mutant) the handler of the loop catches every exception
ExceptException_All(exc) == TRUE

\* "except Exception" of _cleanup_state and _report_metrics: asyncio.CancelledError
\* derives from BaseException, every other error here from Exception
ExceptException(exc) == exc # "CancelledError"

\* An exception raised inside the try block of the loop of task t: the handler
\* logs it and the loop goes back to its sleep, or it leaves the coroutine
TaskRaise(t, exc) ==
    task' = [task EXCEPT ![t] =
                IF ExceptException(exc)
                    THEN [pc |-> "sleep", cancel_requested |-> FALSE]
                    ELSE [pc |-> IF exc = "CancelledError" THEN "cancelled" ELSE "failed",
                          cancel_requested |-> FALSE]]

\* _report_metrics: one round of its loop; the report is logged or raises
ReportMetricsTask ==
    /\ task["report_metrics"] = [pc |-> "sleep", cancel_requested |-> FALSE]
    /\ \E outcome \in {"logged", "Exception"} :
         IF outcome = "logged" THEN UNCHANGED task ELSE TaskRaise("report_metrics", outcome)
    /\ UNCHANGED <<conversation_history, prefilled, append_log, agent_state, circuit_breaker,
                   fail_streak, error_counts, apc, acall, calls, clock, regVars, embVars, llmVars, oa>>

\* Task.cancel() on a task that waits in asyncio.sleep (the loop's shutdown)
CancelTask(t) ==
    /\ task[t] = [pc |-> "sleep", cancel_requested |-> FALSE]
    /\ task' = [task EXCEPT ![t].cancel_requested = TRUE]
    /\ UNCHANGED <<conversation_history, prefilled, append_log, agent_state, circuit_breaker,
                   fail_streak, error_counts, apc, acall, calls, clock, regVars, embVars, llmVars, oa>>

\* The cancelled task is resumed: asyncio.sleep raises CancelledError inside the try
SleepCancelled(t) ==
    /\ task[t] = [pc |-> "sleep", cancel_requested |-> TRUE]
    /\ TaskRaise(t, "CancelledError")
    /\ UNCHANGED <<conversation_history, prefilled, append_log, agent_state, circuit_breaker,
                   fail_streak, error_counts, apc, acall, calls, clock, regVars, embVars, llmVars, oa>>

TasksNext ==
    \/ CleanupTask
    \/ ReportMetricsTask
    \/ \E t \in Tasks : CancelTask(t) \/ SleepCancelled(t)
    \/ \E c \in Callers : CallUpdateState(c) \/ InlineCleanup(c)

\* An Agent whose update_state is called while its background tasks run and are
\* cancelled
SpecTasks == Init /\ [][TasksNext]_vars

\* A LanguageModel after construction, used on its own
InitLlm ==
    /\ LlmInit /\ AgentUnused /\ RegistryUnused /\ EmbeddingUnused
    /\ clock = 0 /\ skills = <<>> /\ metrics = <<>>

SpecLlm == InitLlm /\ [][LlmNext]_vars

\* ------------------------------------------------------ OpenAIService
\* self._model_configs
model_configs == {"gpt-4", "gpt-3.5-turbo", "text-embedding-ada-002"}

\* self._default_model
default_model == "gpt-4"

\* "v or default": None and 0 are falsy
OrDefault(v, default) == IF v = Absent \/ v[1] = 0 THEN default ELSE v[1]

\* params = {"model": ..., "temperature": ..., "max_tokens": ..., **additional_params or {}}
PrepareParams(model, temperature, max_tokens, additional_params) ==
    [model |-> model,
     temperature |-> OrDefault(temperature, DEFAULT_TEMPERATURE),
     max_tokens |-> OrDefault(max_tokens, DEFAULT_MAX_TOKENS),
     additional |-> IF additional_params = Absent THEN {} ELSE {additional_params[1]}]

\* A caller invokes create_completion or create_chat_completion. The model is
\* None, a supported model or an unsupported one, the temperature is in tenths,
\* additional_params is None or a dict with a key of its own.
CallCompletion ==
    /\ oa.pc \in {"idle", "returned"}
    /\ oa.calls < MaxOaCalls
    /\ \E e \in {"completions", "chat_completions"}, ok \in BOOLEAN,
          md \in {Absent, <<"gpt-4">>, <<"davinci">>},
          t \in {Absent, <<0>>, <<3>>, <<DEFAULT_TEMPERATURE>>},
          mt \in {Absent, <<0>>, <<100>>}, ap \in {Absent, <<"top_p">>} :
         oa' = [NoOaCall EXCEPT !.pc = "attempt", !.endpoint = e, !.input_ok = ok, !.model = md,
                                !.temperature = t, !.max_tokens = mt,
                                !.additional_params = ap, !.calls = oa.calls + 1]
    /\ UNCHANGED <<permits, lm, lm_outcome, regVars, clock, agentVars, embVars>>

\* One attempt up to the request to the provider: an empty prompt (or messages
\* that are no non-empty list) and an unsupported model raise ValueError under
\* the retry decorator; else the parameters are prepared and the request is sent
OaAttempt ==
    /\ oa.pc = "attempt"
    /\ LET model == IF oa.model = Absent THEN default_model ELSE oa.model[1] IN
         IF ~oa.input_ok \/ model \notin model_configs
         THEN oa' = [oa EXCEPT !.pc = "wait"]
         ELSE oa' = [oa EXCEPT !.pc = "provider",
                               !.sent = <<PrepareParams(model, oa.temperature, oa.max_tokens,
                                                        oa.additional_params)>>]
    /\ UNCHANGED <<permits, lm, lm_outcome, regVars, clock, agentVars, embVars>>

\* The provider answers: the text is returned, or the error is raised again
\* under the retry decorator
OaProviderAnswer ==
    /\ oa.pc = "provider"
    /\ \E out \in {"ok", "RateLimitError", "InvalidRequestError", "OpenAIError"} :
         oa' = [oa EXCEPT !.pc = IF out = "ok" THEN "returned" ELSE "wait"]
    /\ UNCHANGED <<permits, lm, lm_outcome, regVars, clock, agentVars, embVars>>

\* The wait of the retry decorator, which has no stop condition, is over
OaRetry ==
    /\ oa.pc = "wait"
    /\ oa' = [oa EXCEPT !.pc = "attempt"]
    /\ UNCHANGED <<permits, lm, lm_outcome, regVars, clock, agentVars, embVars>>

OpenAINext == CallCompletion \/ OaAttempt \/ OaProviderAnswer \/ OaRetry

\* The OpenAIService of a LanguageModel after construction, used on its own
SpecOpenAI == InitLlm /\ [][OpenAINext]_vars


\* ------------------------------------------------------ agent claims
\* Every turn ever appended, oldest first
FullLog == Earlier(prefilled) \o append_log

LastN(q, n) == SubSeq(q, Len(q) - n + 1, Len(q))

\* C1: in every reachable state, whatever the interleaving of process_request
\* calls, their retried attempts and the rounds of the history-trim task, the
\* conversation history holds at most CONVERSATION_HISTORY_LIMIT turns.
C1_HistoryBounded == Len(conversation_history) <= CONVERSATION_HISTORY_LIMIT

\* Both callers have appended to a history that was full, and turns were evicted.
C1_Witness ==
    /\ Len(FullLog) > CONVERSATION_HISTORY_LIMIT + 1
    /\ Len(conversation_history) = CONVERSATION_HISTORY_LIMIT
    /\ \A c \in Callers : "history" \in acall[c].effects

\* C2: after N appends the history is the last min(N, CONVERSATION_HISTORY_LIMIT)
\* appended turns in append order: the oldest turn is the one evicted, and no
\* retained turn is reordered or duplicated.
C2_HistoryIsMostRecent ==
    conversation_history =
        LastN(FullLog, Min(Len(FullLog), CONVERSATION_HISTORY_LIMIT))

\* Two turns have been evicted.
C2_Witness ==
    /\ Len(FullLog) >= CONVERSATION_HISTORY_LIMIT + 2
    /\ conversation_history[1].timestamp = 3

\* C3: every process_request call eventually returns a result or raises.
C3_ProcessRequestEnds ==
    \A c \in Callers :
        (apc[c] = "attempt") ~> (apc[c] \in {"returned", "raised"})

\* C4: an execute_skill call made after failure_threshold execute_skill calls
\* failed in a row is refused by the circuit breaker: it does not get as far
\* as the skill.
C4_CircuitOpensAfterThreshold ==
    \A c \in Callers : acall[c].entry_streak < failure_threshold

\* C10: the step in which process_request is rejected at step 1 leaves the
\* conversation history and the agent state as they were, and the call has
\* made no embedding, vector-store or language-model call.
C10_RejectionChangesNothing ==
    [][\A c \in Callers :
          (apc[c] = "attempt" /\ apc'[c] \in {"backoff", "raised"})
              => /\ conversation_history' = conversation_history
                 /\ agent_state' = agent_state
                 /\ acall'[c].effects = {}]_vars

\* A call with an expired security context has been rejected on its last attempt
\* while the history holds turns.
C10_Witness ==
    \E c \in Callers :
        /\ apc[c] = "raised"
        /\ acall[c].attempt = MaxAttempts
        /\ acall[c].error = "Security context has expired"
        /\ acall[c].effects = {}
        /\ Len(conversation_history) > 0

\* C11: a process_request call made with an empty string or with None fails
\* with a ValueError: the exception that reaches the caller is a ValueError.
C11_InvalidRequestRaisesValueError ==
    \A c \in Callers :
        (apc[c] = "raised" /\ InvalidRequest(acall[c].request))
            => acall[c].raised = "ValueError"

\* C12: a call with an invalid request runs the pipeline body once: it makes no
\* second attempt and never waits in the retry backoff.
C12_InvalidRequestNotRetried ==
    \A c \in Callers :
        (apc[c] \in {"attempt", "backoff", "raised"} /\ InvalidRequest(acall[c].request))
            => acall[c].attempt <= 1 /\ apc[c] # "backoff"

\* C13: a call whose security context holds every required field and a timestamp
\* more than SecurityExpiry seconds old fails with the expiry error itself: the
\* exception that reaches the caller is the ValueError "Security context has expired".
C13_ExpiredContextSurfaces ==
    \A c \in Callers :
        (/\ apc[c] = "raised"
         /\ SecurityFields \subseteq acall[c].security_context.fields
         /\ acall[c].security_context.parses
         /\ acall[c].security_context.age > SecurityExpiry)
            => /\ acall[c].raised = "ValueError"
               /\ acall[c].error = "Security context has expired"

\* C14: a call that supplies a security context lacking a required field, the
\* context with no fields included, never gets past step 1: it appends no turn
\* and makes no provider call.
C14_IncompleteContextRejected ==
    \A c \in Callers :
        (/\ acall[c].security_context.type = "dict"
         /\ ~(SecurityFields \subseteq acall[c].security_context.fields))
            => acall[c].effects = {}

\* The call is inside the skill loop and a skill it executed has raised
SkillRaised(c) ==
    /\ apc[c] \in {"skill", "llm_wait"}
    /\ acall[c].k > Len(acall[c].results) + 1

\* C17: once a selected skill has raised inside the skill loop, the loop goes on
\* and the request eventually returns a result.
C17_SkillFailureDoesNotStopRequest ==
    \A c \in Callers : SkillRaised(c) ~> (apc[c] = "returned")

\* C18: a failure inside get_conversation_context (security validation, the
\* projection of the matches) never leaves it as an exception: the call gets
\* the empty sequence and process_request goes on with it.
C18_ContextFailureGivesEmpty ==
    \A c \in Callers :
        acall[c].ctx_failure # None
            => /\ acall[c].conv = <<>>
               /\ apc[c] \in {"select", "skill", "llm_wait", "update_state", "cleanup"}
               /\ acall[c].raised = None

\* A security context that was fresh at step 1 expired during the embedding
\* retries; get_conversation_context returned [] and the skill loop is running.
C18_Witness ==
    \E c \in Callers :
        /\ acall[c].ctx_failure = "Security context has expired"
        /\ apc[c] = "skill"

\* The call is inside get_conversation_context
InContext(c) ==
    \/ apc[c] \in {"emb_call", "emb_wait"} /\ acall[c].stage \in {"context", "search"}
    \/ apc[c] = "query"

\* C19: a call that has entered get_conversation_context eventually leaves it
\* with the context or the empty sequence.
C19_ContextReturns ==
    \A c \in Callers : InContext(c) ~> (apc[c] = "select")

\* ------------------------------------------------------ registry claims

\* C6: a register_skill call that finds its skill's name already in the registry
\* returns failure and leaves _skills and _metrics exactly as they were when it
\* took the lock, so the name keeps the skill and the metrics entry of its first
\* registration.
C6_DuplicateRejectedUnchanged ==
    \A t \in Threads :
        (rpc[t] = "reg_release" /\ SkillName(rcall[t].skill) \in Names(before[t][1]))
            => /\ rcall[t].ret[1] = FALSE
               /\ skills = before[t][1]
               /\ metrics = before[t][2]

\* A valid skill is refused as a duplicate of a different skill registered earlier
\* under the same name.
C6_Witness ==
    \E t \in Threads :
        /\ rpc[t] = "reg_release"
        /\ rcall[t].ret = DuplicateError
        /\ SkillName(rcall[t].skill) \in Names(skills)
        /\ DictGet(skills, SkillName(rcall[t].skill)) # rcall[t].skill

\* The register_skill calls that returned, carrying a valid skill named n
Returned(n) ==
    {i \in DOMAIN reg_log : SkillName(reg_log[i].skill) = n /\ reg_log[i].skill \in ValidIds}
Won(n) == {i \in Returned(n) : reg_log[i].ok}

\* C7: among the register_skill calls made with registrable skills of one name,
\* however the threads interleave, exactly one succeeds, every other one fails
\* with "Skill already exists", and the registry holds exactly one entry for the
\* name: the winner's skill.
C7_ExactlyOneRegistration ==
    \A n \in AllNames :
        /\ Cardinality(Won(n)) <= 1
        /\ Returned(n) # {} => Cardinality(Won(n)) = 1
        /\ \A i \in Returned(n) \ Won(n) : reg_log[i].err = DuplicateError[2]
        /\ Cardinality({k \in 1..Len(skills) : skills[k].name = n}) <= 1
        /\ \A i \in Won(n) : n \in Names(skills) /\ DictGet(skills, n) = reg_log[i].skill

\* A call is refused as a duplicate of a registration that returned after the
\* call was made: the two calls were in flight together.
C7_Witness ==
    \E t \in Threads :
        /\ rpc[t] = "reg_release"
        /\ rcall[t].ret = DuplicateError
        /\ \E i \in DOMAIN reg_log :
              /\ i > rcall[t].seen
              /\ reg_log[i].ok
              /\ SkillName(reg_log[i].skill) = SkillName(rcall[t].skill)

HasInvalid(l) == \E i \in 1..Len(l) : l[i] \notin ValidIds

\* C8: when bulk_register returns for a list holding a skill that fails
\* validation, _skills and _metrics are what they were when the call took the lock.
C8_InvalidBatchRegistersNothing ==
    \A t \in Threads :
        (rpc[t] = "bulk_release" /\ HasInvalid(rcall[t].list))
            => skills = before[t][1] /\ metrics = before[t][2]

\* A batch is rejected whose first skill is valid and carries a name that is free.
C8_Witness ==
    \E t \in Threads :
        /\ rpc[t] = "bulk_release"
        /\ HasInvalid(rcall[t].list)
        /\ rcall[t].list[1] \in ValidIds
        /\ SkillName(rcall[t].list[1]) \notin Names(skills)

\* C9: a bulk_register call whose list is non-empty and passes validation
\* eventually returns, with a result for every skill of the list and every name
\* of the list registered.
C9_BulkRegisterReturns ==
    \A t \in Threads :
        (rpc[t] = "bulk_register" /\ Len(rcall[t].list) > 0)
            ~> /\ rpc[t] = "bulk_release"
               /\ DOMAIN rcall[t].results = {SkillName(rcall[t].list[i]) : i \in 1..Len(rcall[t].list)}
               /\ \A i \in 1..Len(rcall[t].list) : SkillName(rcall[t].list[i]) \in Names(skills)

\* ------------------------------------------------------ embedding claims

\* C15: every embedding generate_embedding returns has the configured dimension,
\* whatever lengths the provider returned before; so has every vector that
\* store_embeddings hands to upsert_vectors and search_similar hands to query.
C15_EmbeddingsHaveConfiguredDimension ==
    /\ epc = "gen_done" => ecall.embedding = embedding_dimension
    /\ (epc = "returned" /\ ecall.op = "generate") => ecall.ret = embedding_dimension
    /\ \A b \in 1..Len(upsert_log) : \A k \in 1..Len(upsert_log[b]) :
          upsert_log[b][k].embedding = embedding_dimension
    /\ \A q \in 1..Len(query_log) : query_log[q] = embedding_dimension

\* The provider returned an embedding of the wrong length during a
\* store_embeddings call, and the call has handed a second batch to the store.
C15_Witness ==
    /\ ecall.op = "store"
    /\ ecall.rejected
    /\ Len(upsert_log) = 2

\* C16: an embedding of the wrong length ends generate_embedding: the call has
\* raised the dimension error and the provider is not called again for it.
C16_MismatchNotRetried ==
    ecall.mismatches > 0
        => /\ epc = "raised"
           /\ ecall.mismatches = 1

Ceil(n, d) == (n + d - 1) \div d

RECURSIVE Concat(_)
Concat(batches) == IF batches = <<>> THEN <<>> ELSE Head(batches) \o Concat(Tail(batches))

\* What identifies an item: its id and its metadata
IdAndMetadata(items) == [k \in 1..Len(items) |-> <<items[k].id, items[k].metadata>>]

\* C20: store_embeddings hands the items to upsert_vectors in batches of at most
\* BATCH_SIZE, in input order with nothing lost or duplicated, and when it
\* returns for N items it has made exactly ceil(N / BATCH_SIZE) upsert_vectors calls.
C20_BatchesPartitionInput ==
    ecall.op = "store" =>
        LET sent == IdAndMetadata(Concat(upsert_log))
            input == IdAndMetadata(ecall.text_data) IN
        /\ \A b \in 1..Len(upsert_log) : Len(upsert_log[b]) \in 1..BATCH_SIZE
        /\ Len(sent) <= Len(input)
        /\ sent = SubSeq(input, 1, Len(sent))
        /\ epc = "returned"
              => /\ Len(upsert_log) = Ceil(Len(ecall.text_data), BATCH_SIZE)
                 /\ sent = input

\* store_embeddings has returned for a list that ends in a partial third batch.
C20_Witness ==
    /\ ecall.op = "store"
    /\ epc = "returned"
    /\ Len(upsert_log) = 3
    /\ Len(upsert_log[3]) < BATCH_SIZE
    /\ Len(ecall.text_data) > 2 * BATCH_SIZE

\* C21: once upsert_vectors has failed for a batch of store_embeddings (it gave
\* False or raised), no later batch is handed to the vector store, and the call,
\* when it has ended, has reported failure.
C21_FailedBatchStopsStore ==
    ecall.op = "store" =>
        \A b \in 1..Len(ecall.results) :
            ecall.results[b] # "True"
                => /\ Len(upsert_log) <= b
                   /\ epc = "returned" => ecall.ret = FALSE

\* C22: when store_embeddings returns, it returns True exactly if every batch
\* upsert reported success, and a batch upsert that reported False is the last
\* one it made.
C22_ReturnsConjunctionAtFirstFalse ==
    (ecall.op = "store" /\ epc = "returned") =>
        /\ ecall.ret = (\A b \in 1..Len(ecall.results) : ecall.results[b] = "True")
        /\ \A b \in 1..Len(ecall.results) :
              ecall.results[b] = "False" => b = Len(ecall.results)

\* C23: an invocation of create_embedding, upsert_vectors or query calls its
\* provider at most 3 times, and after the third failed call it does not wait for
\* another attempt.
C23_AtMostThreeAttempts ==
    /\ ecall.attempts <= 3
    /\ epc \in {"provider_wait", "upsert_wait", "query_wait", "delete_wait"} => ecall.attempts < 3

\* C29: when the dimension check of upsert_vectors or query has failed, the call
\* has ended by raising the dimension error to its caller, and the index was not
\* called.
C29_DimensionMismatchRaised ==
    ecall.dim_failed
        => /\ epc = "raised"
           /\ ecall.attempts = 0

\* ------------------------------------------------------ language-model claims
\* Provider calls in flight through the LanguageModel
InFlight == lm.text_flight + lm.emb_flight

\* C24: at every moment at most max_concurrent_requests provider calls, text
\* completions and embeddings together, are in flight through the LanguageModel.
C24_InFlightWithinPermits == InFlight <= max_concurrent_requests

\* C25: the permits available and the callers inside the rate limiter always add
\* up to max_concurrent_requests, so when every call has ended, by returning or by
\* raising, all the permits are available again.
C25_PermitsReleased ==
    /\ permits + lm.text_flight + lm.text_wait = max_concurrent_requests
    /\ Busy(lm) = 0 => permits = max_concurrent_requests

\* A call has left the rate limiter by raising, and no call is in progress:
\* all the permits are available.
C25_Witness ==
    /\ lm_outcome = "CancelledError"
    /\ Busy(lm) = 0
    /\ permits = max_concurrent_requests

\* C26: generate_text with an invalid request ends at its first attempt: no call
\* waits for another attempt after a validation failure, and none ends in
\* tenacity's RetryError.
C26_InvalidRequestFailsFast ==
    /\ \A a \in 1..(LlmMaxAttempts - 1) : lm.validation_wait[a] = 0
    /\ lm_outcome # "RetryError"

\* ------------------------------------------------------ direct-call claims

\* C27: an update_state call whose new_state is over MAX_CONTEXT_LENGTH ends: it
\* merges the new keys into the state and returns True.
C27_OversizedUpdateReturns ==
    \A c \in Callers :
        (apc[c] = "cleanup" /\ acall[c].op = "update_state")
            ~> (apc[c] = "returned" /\ acall[c].ret = "True")

\* C28: whatever update_state calls have completed, the serialized size of the
\* agent state is at most MAX_CONTEXT_LENGTH.
C28_StateWithinLimit == SerializedSize(agent_state) <= MAX_CONTEXT_LENGTH

ArgumentErrors ==
    {"Input text must be a non-empty string", "No text data provided for embedding storage",
     "Query text cannot be empty", "top_k must be positive", "Invalid vector IDs provided"}

\* C31: when an argument check of generate_embedding, store_embeddings,
\* search_similar or delete_embeddings has failed, the call has ended and what it
\* raised to its caller is ValueError.
C31_ArgumentErrorsAreValueErrors ==
    ecall.error \in ArgumentErrors
        => /\ epc = "raised"
           /\ ecall.raised = "ValueError"

\* C32: a process_request call with the oversized request does not run the
\* pipeline: it touches nothing, and it ends by raising ValueError.
C32_OversizedRequestRejected ==
    \A c \in Callers :
        acall[c].request.len >= OversizedLength
            => /\ acall[c].effects = {}
               /\ apc[c] \in {"attempt", "raised"}
               /\ apc[c] = "raised" => acall[c].raised = "ValueError"

\* ------------------------------------------------------ skill claims

\* C33: an execute_skill call that has got as far as the language model, for a
\* registered skill with valid inputs and a closed breaker, requests one
\* completion and does not raise: it waits for the completion or has returned
\* the result.
C33_ExecuteSkillReturnsResult ==
    \A c \in Callers :
        (acall[c].op = "execute_skill" /\ "llm" \in acall[c].effects)
            => /\ apc[c] \in {"direct_llm_wait", "returned"}
               /\ acall[c].llm_attempt <= 1

\* The inputs are over the size limit, omit a key the schema declares or hold a
\* value of another type for it
BadInputs(skill, inputs) ==
    \/ inputs.size > max_input_size
    \/ \E kt \in skill.input_schema.keys : kt \notin inputs.items

\* The skill a direct call names
SkillOf(c) == SkillDef[get_skill(skills, acall[c].skill_name)]

\* C34: a Skill.execute call with bad inputs has raised the validation error and
\* has neither rendered the prompt nor called the language model.
C34_BadInputsNeverReachModel ==
    \A c \in Callers :
        (acall[c].op = "skill_execute" /\ BadInputs(SkillOf(c), acall[c].inputs))
            => /\ apc[c] = "raised"
               /\ acall[c].raised = "ValueError"
               /\ acall[c].error = "Input validation failed"
               /\ acall[c].effects \cap {"render", "llm"} = {}

\* Skill.execute has raised for inputs over the size limit, and another call
\* with inputs at the limit has reached the language model.
C34_Witness ==
    /\ \E c \in Callers :
         /\ acall[c].op = "skill_execute"
         /\ acall[c].inputs.size > max_input_size
         /\ apc[c] = "raised"
    /\ \E c \in Callers :
         /\ acall[c].op = "skill_execute"
         /\ acall[c].inputs.size = max_input_size
         /\ "llm" \in acall[c].effects

\* C35: a Skill.execute call that has failed has incremented exactly one error
\* counter, validation_errors when the inputs failed validation and
\* execution_errors otherwise.
C35_OneCounterPerFailure ==
    \A c \in Callers :
        (acall[c].op = "skill_execute" /\ apc[c] = "raised")
            => acall[c].bumped =
                 IF acall[c].error = "Input validation failed"
                 THEN <<"validation_errors">> ELSE <<"execution_errors">>

C37_RegistrationIsOneWay ==
    [][/\ \A n \in Names(skills) :
             n \in Names(skills') /\ DictGet(skills', n) = DictGet(skills, n)
       /\ \A i \in 1..Len(skills') : skills'[i].name = SkillName(skills'[i].skill)]_vars

\* Two names are registered, and a call that brought another skill under one of
\* them has returned.
C37_Witness ==
    /\ Len(skills) >= 2
    /\ \E i \in DOMAIN reg_log :
         /\ SkillName(reg_log[i].skill) \in Names(skills)
         /\ DictGet(skills, SkillName(reg_log[i].skill)) # reg_log[i].skill

\* C38: a background task that sleeps with a cancellation pending can only end
\* (its handler does not put it back to sleep), a task that has ended never
\* runs again, and no task ever holds the registry lock.
C38_CancellationEndsTask ==
    [][\A t \in Tasks :
          /\ (task[t].pc = "sleep" /\ task[t].cancel_requested /\ task'[t] # task[t])
                => task'[t].pc = "cancelled"
          /\ task[t].pc = "cancelled" => task'[t] = task[t]
          /\ registry_lock' # t]_vars

\* Both tasks were cancelled in their sleep and have ended, after an
\* update_state call returned.
C38_Witness ==
    /\ \A t \in Tasks : task[t].pc = "cancelled"
    /\ \E c \in Callers : acall[c].op = "update_state" /\ apc[c] = "returned"

\* C39 (as stated): a process_request call that has ended has appended its
\* request to the conversation history exactly once.
C39_AppendsExactlyOnce ==
    \A c \in Callers :
        (apc[c] \in {"returned", "raised"} /\ acall[c].op = "none") => acall[c].appends = 1

\* C39 (amended): over all its attempts a process_request call appends its
\* request at most once: once when step 1 accepts it, which leaves no further
\* attempt, and not at all when step 1 rejects it, however many attempts follow.
C39_AppendsAtMostOnce ==
    /\ Len(append_log) <= calls
    /\ \A c \in Callers :
         /\ acall[c].appends <= 1
         /\ (apc[c] = "returned" /\ acall[c].op = "none") => acall[c].appends = 1
         /\ (acall[c].attempt > 1 \/ apc[c] \in {"backoff", "raised"}) => acall[c].appends = 0

\* Of two calls, one was rejected on each of its three attempts and appended
\* nothing, the other appended its request.
C39_Witness ==
    /\ calls = 2
    /\ Len(append_log) = 1
    /\ \E c \in Callers :
         apc[c] = "raised" /\ acall[c].attempt = MaxAttempts /\ acall[c].appends = 0

\* C40: the request create_completion or create_chat_completion sends to the
\* provider carries the caller's temperature and max_tokens unchanged whenever
\* the caller supplied them, a temperature of 0 included, and the configured
\* defaults only where the caller supplied none.
C40_ParametersForwarded ==
    oa.sent # Absent =>
        /\ oa.sent[1].temperature =
              IF oa.temperature = Absent THEN DEFAULT_TEMPERATURE ELSE oa.temperature[1]
        /\ oa.sent[1].max_tokens =
              IF oa.max_tokens = Absent THEN DEFAULT_MAX_TOKENS ELSE oa.max_tokens[1]

====
